---- MODULE Spec2Model ----
(***************************************************************************)
(* Resampling, labelling and segmenting of shot time series.               *)
(*                                                                         *)
(* Numbers.  Times are integers in a fixed time unit.  A computed value    *)
(* that need not be an integer (an interpolated or smoothed signal, a bin  *)
(* mean, a linspace point) is kept as an exact fraction <<num, den>> with  *)
(* den > 0; two fractions are compared by cross multiplication (RatEq).    *)
(***************************************************************************)
EXTENDS Integers, Sequences, FiniteSets, TLC

(* ------------------------------ bounds --------------------------------- *)
\* largest time value of a sample, a window end or a cut time
MaxTime == 4
\* largest number of samples of one channel series
MaxSamples == 2
\* largest signal value of a sample
MaxSignal == 2
\* largest timestep_size of the interpolating resampler, in time units
MaxStep == 2
\* largest requested `length` of the binning resamplers
MaxLength == 2
\* largest whole time value in a features file that is labelled
MaxLabelTime == 2
\* largest number of rows of a features file that is labelled
MaxRows == 3
\* largest number of cut times handed to Edward
MaxCuts == 2
\* largest number of raw files in the remote directory
MaxFiles == 2
\* largest shot number of a features file in the directory of load_and_process_data
MaxShots == 3
\* largest number of entries of a list of runaway shots (RE_autom.csv, RE_valid.csv)
MaxListed == 2
\* largest number of rows of a DataFrame handed to check_nans_infs
MaxFrameRows == 2
\* largest seq_length of IndependentCSVDataset and largest number of rows of its files
MaxSeqLength == 3
\* largest window of IndependentCSVDataset
MaxWindow == 3
\* largest stride of IndependentCSVDataset
MaxStride == 2
\* largest number of files in the features_list of load_all_data
MaxListLength == 4
\* test_size and mini_test_size are the fractions 0/SizeSteps .. SizeSteps/SizeSteps
SizeSteps == 4

VARIABLES
    \* ---- resampler (downsample_timeseries, three revisions) ----
    rs_call,             \* which revision ran last: "none", "interp", "bins", "boxes"
    rs_args,             \* the arguments of that call
    rs_result,           \* "none", "returned" or "ValueError"
    interpolated,        \* downsampled_signal after np.interp, before the smoothing
    downsampled_time,    \* returned time axis, fractions
    downsampled_signal,  \* returned signal, fractions
    \* ---- label builder (save_re_targets, save_no_re_targets), one shot ----
    lb_call,             \* "none", "save_re_targets" or "save_no_re_targets"
    features_time,       \* the time column of JETno<shot>.csv, as written in the file
    lifetimes,           \* RE_lifetimes[shot_nr]
    target,              \* targets[shot_nr]
    label_file,          \* the label file of the shot
    lb_result,           \* "none", "returned" or "ValueError"
    \* ---- segmenter (Edward, two revisions) ----
    ed_call,             \* "none", "Edward" (PDF.py) or "EdwardSeries" (Download_single_files)
    ed_args,             \* the arguments y, t, t_c of that call
    y_c,                 \* returned value segments (y_c, y_cutted)
    t_cutted,            \* returned time segments (two-array revision)
    ed_result,           \* "none", "returned", "ValueError" or "IndexError"
    \* ---- shot merger (downsample_and_merge, final and legacy revision) ----
    mg_call,             \* "none", "final" (remote_processing_csv) or "legacy" (Processing_Data)
    mg_args,             \* the arguments shot, keys, timestep_size, length of that call
    mg_result,           \* "none", "returned", "KeyError" or "ValueError"
    merged_df,           \* the returned table: columns and rows
    mg_frames,           \* downsampled_df of every channel that was resampled, in loop order
    mg_row_counts,       \* number of rows of merged_df after every loop pass that changed it
    mg_log,              \* the lines printed by the call
    \* ---- per-shot CSV pipeline (remote_processing_csv.main) ----
    csv_status,          \* "none", "running", "finished", "aborted" (uncaught exception)
                         \* or "interrupted" (the process was stopped from outside)
    remote_files,        \* os.listdir(remote_path): the raw files and what they hold
    jet_files,           \* the list the for loop of this run walks through
    csv_pos,             \* 1-based position of the loop in jet_files
    output_folder,       \* the CSV file of every shot identifier, if there is one
    csv_parsed,          \* positions whose file was handed to a container parser in this run
    csv_log,             \* the lines printed in this run
    \* ---- aggregate pipeline (remote_processing.main) ----
    agg_status,          \* "none", "running", "finished", "aborted" or "interrupted"
    agg_files,           \* jet_files: the raw files of the remote directory
    agg_pos,             \* 1-based position of the loop in agg_files
    same_filesystem,     \* whether the temp directory and the checkpoint share a file system
    pickle_file,         \* the checkpoint file all_JET_data.pkl on disk
    all_data,            \* the mapping shot_number -> processed_data in memory
    processed_shots,     \* set(all_data.keys()) as taken right after loading
    agg_loaded,          \* what load_existing_data returned in this run
    agg_persisted,       \* shot numbers that some completely written checkpoint has held
    agg_parsed,          \* positions whose file was handed to a container parser in this run
    agg_log,             \* the lines printed in this run
    \* ---- shot lists (create_labels.load_and_process_data) ----
    ld_call,             \* "none" or "load_and_process_data"
    ld_args,             \* the directory listing and the two lists as read from their files
    dataframes,          \* the loaded features files in dict order: shot and columns
    RE_autom,            \* returned list of automatically detected runaway shots
    RE_valid,            \* returned list of validated runaway shots
    NO_RE_probably,      \* returned list of the remaining shots
    features,            \* returned list of feature names
    \* ---- cleaning (EDA.check_nans_infs, EDA.check_nans_infs_pdf) ----
    cl_call,             \* "none", "check_nans_infs" or "check_nans_infs_pdf"
    cl_args,             \* the dict of DataFrames before the call, and drop
    cl_frames,           \* the dict of DataFrames after the call (changed in place)
    cl_log,              \* the lines printed by the call
    \* ---- sliding windows (Models/helpers.IndependentCSVDataset) ----
    ds_call,             \* "none" or "IndependentCSVDataset"
    ds_args,             \* features_list as handed in, seq_length, window, stride
    ds_features_list,    \* features_list after the call (shuffled in place)
    samples,             \* self.samples: the (x, y) pairs in the order of their creation
    ds_log,              \* the files reported as skipped
    \* ---- train/test split (Models/load_data.load_all_data) ----
    sp_call,             \* "none" or "load_all_data"
    sp_args,             \* features_list as handed in, test_size, mini_test_size
    sp_features_list,    \* features_list after the call (shuffled in place)
    test_list,           \* features_list[:test_size]
    train_list,          \* features_list[test_size:mini_test_size]
    mini_test_list       \* features_list[mini_test_size:]

rs_vars == <<rs_call, rs_args, rs_result, interpolated, downsampled_time, downsampled_signal>>

lb_vars == <<lb_call, features_time, lifetimes, target, label_file, lb_result>>

ed_vars == <<ed_call, ed_args, y_c, t_cutted, ed_result>>

mg_vars == <<mg_call, mg_args, mg_result, merged_df, mg_frames, mg_row_counts, mg_log>>

csv_vars == <<csv_status, remote_files, jet_files, csv_pos, output_folder, csv_parsed, csv_log>>

agg_vars ==
    <<agg_status, agg_files, agg_pos, same_filesystem, pickle_file, all_data, processed_shots,
      agg_loaded, agg_persisted, agg_parsed, agg_log>>

ld_vars == <<ld_call, ld_args, dataframes, RE_autom, RE_valid, NO_RE_probably, features>>

cl_vars == <<cl_call, cl_args, cl_frames, cl_log>>

ds_vars == <<ds_call, ds_args, ds_features_list, samples, ds_log>>

sp_vars == <<sp_call, sp_args, sp_features_list, test_list, train_list, mini_test_list>>

vars ==
    <<rs_vars, lb_vars, ed_vars, mg_vars, csv_vars, agg_vars, ld_vars,
      cl_vars, ds_vars, sp_vars>>

(* ------------------------------ helpers -------------------------------- *)
\* ceil(a / b) for a >= 0, b > 0
CeilDiv(a, b) == (a + b - 1) \div b

RECURSIVE Gcd(_, _)
Gcd(a, b) == IF b = 0 THEN a ELSE Gcd(b, a % b)

RECURSIVE LcmUpTo(_)
LcmUpTo(n) == IF n <= 1 THEN 1 ELSE LET l == LcmUpTo(n - 1) IN (l * n) \div Gcd(l, n)

RECURSIVE SumSeq(_)
SumSeq(s) == IF s = <<>> THEN 0 ELSE Head(s) + SumSeq(Tail(s))

\* equality of two fractions <<num, den>>
RatEq(p, q) == p[1] * q[2] = q[1] * p[2]

\* the fraction of an integer
Rat(n) == <<n, 1>>

\* non-decreasing sequences of length n over 0..MaxTime
SortedTimes(n) == {t \in [1..n -> 0..MaxTime] : \A i \in 1..(n - 1) : t[i] <= t[i + 1]}

\* a channel series: equal-length time and signal, time non-decreasing
ChannelSeries ==
    UNION {{[time |-> t, signal |-> s] : t \in SortedTimes(n), s \in [1..n -> 0..MaxSignal]}
           : n \in 0..MaxSamples}

(* ---------------- remote_processing_csv.downsample_timeseries ---------- *)
\* np.arange(begin, end, step): ceil((end - begin) / step) points, none when end <= begin
Arange(begin_time, end_time, timestep_size) ==
    IF end_time <= begin_time THEN <<>>
    ELSE [k \in 1..CeilDiv(end_time - begin_time, timestep_size) |->
              begin_time + (k - 1) * timestep_size]

\* mask = (time_series >= begin_time) & (time_series <= end_time)
MaskEither(time_series, begin_time, end_time) ==
    [i \in DOMAIN time_series |-> time_series[i] >= begin_time \/ time_series[i] <= end_time]
MaskOpen(time_series, begin_time, end_time) ==
    [i \in DOMAIN time_series |-> time_series[i] > begin_time /\ time_series[i] < end_time]
Mask(time_series, begin_time, end_time) ==
    [i \in DOMAIN time_series |-> time_series[i] >= begin_time /\ time_series[i] <= end_time]

\* series[mask]: the elements whose mask entry is true, in order
RECURSIVE Filtered(_, _)
Filtered(series, mask) ==
    IF series = <<>> THEN <<>>
    ELSE IF Head(mask) THEN <<Head(series)>> \o Filtered(Tail(series), Tail(mask))
         ELSE Filtered(Tail(series), Tail(mask))

\* np.interp keeps every value as a multiple of 1 / InterpScale: the slopes divide
\* by a difference of two sample times, which lies in 1..MaxTime
InterpScale == LcmUpTo(MaxTime)

\* np.interp(x, xp, fp) * InterpScale for one point x; xp non-decreasing and not empty
InterpAt(x, xp, fp) ==
    LET n == Len(xp) IN
    IF x > xp[n] THEN fp[n] * InterpScale
    ELSE IF x < xp[1] THEN fp[1] * InterpScale
    ELSE LET j == CHOOSE i \in 1..n : xp[i] <= x /\ (i = n \/ x < xp[i + 1]) IN
         IF j = n \/ xp[j] = x THEN fp[j] * InterpScale
         ELSE fp[j] * InterpScale
              + (fp[j + 1] - fp[j]) * (x - xp[j]) * (InterpScale \div (xp[j + 1] - xp[j]))

Interp(x, xp, fp) == [i \in DOMAIN x |-> InterpAt(x[i], xp, fp)]

\* default sigma of downsample_timeseries
Sigma == 2
\* scipy.ndimage.gaussian_filter1d: truncate = 4.0, radius = int(truncate * sigma + 0.5)
Radius == (8 * Sigma + 1) \div 2
\* exp(-k^2 / (2 sigma^2)) for sigma = 2 and k = 0..Radius, times 10000 and rounded;
\* the filter divides by the sum of the weights
GaussWeights == <<10000, 8825, 6065, 3247, 1353, 439, 111, 22, 3>>
KernelSum == GaussWeights[1] + 2 * SumSeq(Tail(GaussWeights))

\* mode='reflect' (d c b a | a b c d | d c b a): the index, 1-based, that position i reads
Reflect(i, n) ==
    LET m == (i - 1) % (2 * n) IN IF m < n THEN m + 1 ELSE 2 * n - m

\* gaussian_filter1d(signal, sigma) * KernelSum
GaussianFilter1d(signal) ==
    LET n == Len(signal) IN
    [i \in 1..n |->
        SumSeq([k \in 1..(2 * Radius + 1) |->
                   LET off == k - Radius - 1
                       w == GaussWeights[(IF off < 0 THEN -off ELSE off) + 1]
                   IN w * signal[Reflect(i + off, n)]])]

\* if end_time <= begin_time: raise ValueError
InvalidWindowLoose(begin_time, end_time) == end_time < begin_time
InvalidWindow(begin_time, end_time) == end_time <= begin_time

\* denominator of every signal value the interpolating resampler returns
SignalDenom == InterpScale * KernelSum

DownsampleTimeseries ==
    /\ rs_call = "none"
    /\ UNCHANGED <<lb_vars, ed_vars, mg_vars, csv_vars, agg_vars, ld_vars, cl_vars, ds_vars,
                   sp_vars>>
    /\ \E begin_time \in 0..MaxTime, end_time \in 0..MaxTime,
       timestep_size \in 1..MaxStep, series \in ChannelSeries :
        LET time_series == series.time
            signal_series == series.signal
            grid == Arange(begin_time, end_time, timestep_size)
            mask == Mask(time_series, begin_time, end_time)
            filtered_time_series == Filtered(time_series, mask)
            filtered_signal_series == Filtered(signal_series, mask)
            interp == Interp(grid, filtered_time_series, filtered_signal_series)
            smooth == GaussianFilter1d(interp)
        IN
        /\ rs_call' = "interp"
        /\ rs_args' = [begin_time |-> begin_time, end_time |-> end_time,
                       time_series |-> time_series, signal_series |-> signal_series,
                       timestep_size |-> timestep_size, length |-> 0, method |-> ""]
        /\ IF InvalidWindow(begin_time, end_time)
           THEN /\ rs_result' = "ValueError"
                /\ interpolated' = <<>>
                /\ downsampled_time' = <<>>
                /\ downsampled_signal' = <<>>
           ELSE IF Len(filtered_time_series) = 0
           THEN /\ rs_result' = "returned"
                /\ interpolated' = <<>>
                /\ downsampled_time' = [i \in DOMAIN grid |-> Rat(grid[i])]
                /\ downsampled_signal' = [i \in DOMAIN grid |-> <<0, SignalDenom>>]
           ELSE /\ rs_result' = "returned"
                /\ interpolated' = [i \in DOMAIN grid |-> <<interp[i], InterpScale>>]
                /\ downsampled_time' = [i \in DOMAIN grid |-> Rat(grid[i])]
                /\ downsampled_signal' = [i \in DOMAIN grid |-> <<smooth[i], SignalDenom>>]

(* ---------------- Processing_Data/downsampling.downsample_timeseries ---- *)
\* np.linspace(begin, end, num): num evenly spaced points, both ends included
Linspace(begin_time, end_time, num) ==
    IF num = 1 THEN <<Rat(begin_time)>>
    ELSE [k \in 1..num |->
              <<begin_time * (num - 1) + (k - 1) * (end_time - begin_time), num - 1>>]

\* pd.cut(x, bins, labels=False, include_lowest=True) for one x inside [begin, end] and
\* bins = linspace(begin, end, length + 1): the number of edges below x, less one;
\* x on the lowest edge goes to bin 0
CutBin(x, begin_time, end_time, length) ==
    LET below == Cardinality({k \in 0..length :
                     begin_time * length + k * (end_time - begin_time) < x * length})
    IN IF x = begin_time THEN 0 ELSE below - 1

\* pd.cut raises ValueError: "bins must increase monotonically" for a decreasing
\* linspace, "Bin edges must be unique" for repeated edges unless there are just two
CutRaises(begin_time, end_time, length) ==
    \/ end_time < begin_time
    \/ end_time = begin_time /\ length + 1 /= 2

\* df.groupby('bin')['signal'].mean().values: one mean per bin that holds a sample,
\* in bin order
GroupbyMeanAll(bin, signal, length) ==
    LET Members(b) == {i \in DOMAIN bin : bin[i] = b}
        present == {b \in 0..(length - 1) : Members(b) /= {}}
        Rank(b) == Cardinality({c \in present : c <= b})
        SumOf(b) == SumSeq([i \in DOMAIN signal |-> IF bin[i] = b THEN signal[i] ELSE 0])
    IN [r \in 1..Cardinality(present) |->
           LET b == CHOOSE c \in present : Rank(c) = r
           IN <<SumOf(b), Cardinality(Members(b))>>]

GroupbyMean(bin, signal, length) == GroupbyMeanAll(bin, signal, length)

DownsampleTimeseriesBins ==
    /\ rs_call = "none"
    /\ UNCHANGED <<lb_vars, ed_vars, mg_vars, csv_vars, agg_vars, ld_vars, cl_vars, ds_vars,
                   sp_vars>>
    /\ \E begin_time \in 0..MaxTime, end_time \in 0..MaxTime,
       length \in 1..MaxLength, series \in ChannelSeries :
        LET mask == Mask(series.time, begin_time, end_time)
            df_time == Filtered(series.time, mask)
            df_signal == Filtered(series.signal, mask)
            bin == [i \in DOMAIN df_time |-> CutBin(df_time[i], begin_time, end_time, length)]
        IN
        /\ rs_call' = "bins"
        /\ rs_args' = [begin_time |-> begin_time, end_time |-> end_time,
                       time_series |-> series.time, signal_series |-> series.signal,
                       timestep_size |-> 0, length |-> length, method |-> "mean"]
        /\ interpolated' = <<>>
        /\ IF CutRaises(begin_time, end_time, length)
           THEN /\ rs_result' = "ValueError"
                /\ downsampled_time' = <<>>
                /\ downsampled_signal' = <<>>
           ELSE /\ rs_result' = "returned"
                /\ downsampled_time' = Linspace(begin_time, end_time, length)
                /\ downsampled_signal' = GroupbyMean(bin, df_signal, length)

(* ---------------- Processing Data/downsampling.downsample_timeseries ---- *)
(* The file uses pd without importing it; the model takes pandas as given.  *)
\* box['signal'].mean()
Mean(box) == <<SumSeq(box), Len(box)>>

\* box['signal'].median()
Median(box) ==
    LET sorted == SortSeq(box, LAMBDA a, b : a < b)
        n == Len(box)
    IN IF n % 2 = 1 THEN Rat(sorted[(n + 1) \div 2])
       ELSE <<sorted[n \div 2] + sorted[n \div 2 + 1], 2>>

Methods == {"mean", "median", "max"}

DownsampleTimeseriesBoxes ==
    /\ rs_call = "none"
    /\ UNCHANGED <<lb_vars, ed_vars, mg_vars, csv_vars, agg_vars, ld_vars, cl_vars, ds_vars,
                   sp_vars>>
    /\ \E begin_time \in 0..MaxTime, end_time \in 0..MaxTime,
       length \in 1..MaxLength, method \in Methods, series \in ChannelSeries :
        LET mask == Mask(series.time, begin_time, end_time)
            df_time == Filtered(series.time, mask)
            df_signal == Filtered(series.signal, mask)
            box_size == Len(df_time) \div length
            \* range(0, len(df), box_size)
            starts == [k \in 1..CeilDiv(Len(df_time), box_size) |-> (k - 1) * box_size]
            Box(i) == SubSeq(df_signal, i + 1, IF i + box_size <= Len(df_signal)
                                                THEN i + box_size ELSE Len(df_signal))
        IN
        /\ rs_call' = "boxes"
        /\ rs_args' = [begin_time |-> begin_time, end_time |-> end_time,
                       time_series |-> series.time, signal_series |-> series.signal,
                       timestep_size |-> 0, length |-> length, method |-> method]
        /\ interpolated' = <<>>
        /\ IF box_size = 0
           THEN \* range() arg 3 must not be zero
                /\ rs_result' = "ValueError"
                /\ downsampled_time' = <<>>
                /\ downsampled_signal' = <<>>
           ELSE /\ rs_result' = "returned"
                /\ downsampled_time' = [k \in DOMAIN starts |-> Rat(df_time[starts[k] + 1])]
                /\ downsampled_signal' =
                       IF method = "mean" THEN [k \in DOMAIN starts |-> Mean(Box(starts[k]))]
                       ELSE IF method = "median"
                       THEN [k \in DOMAIN starts |-> Median(Box(starts[k]))]
                       ELSE <<>>

(* ---------------- create_labels: save_re_targets, save_no_re_targets ---- *)
(* Each loop iteration reads the features file of its own shot and writes   *)
(* the label file of that shot, so the model follows one shot.  A CSV cell  *)
(* of the time column is kept as written: whole units and a fraction text   *)
(* "" (an integer cell), ".0" or ".5".  A parsed time is counted in halves. *)
FracTexts == {"", ".0", ".5"}

Cells == {[units |-> u, frac |-> f] : u \in 0..MaxLabelTime, f \in FracTexts}

\* time axis and lifetime window of the label builder's worked example
ExampleTimeAxis == [i \in 1..6 |-> [units |-> i - 1, frac |-> ""]]
ExampleWindow == <<1, 4>>

TimeColumns == UNION {[1..n -> Cells] : n \in 0..MaxRows} \cup {ExampleTimeAxis}

\* pd.read_csv: the value of one cell, in halves
ParseCell(cell) == 2 * cell.units + (IF cell.frac = ".5" THEN 1 ELSE 0)

\* pd.read_csv: a column of integer cells is int64, any fraction makes it float64
ColumnDtype(column) ==
    IF \A i \in DOMAIN column : column[i].frac = "" THEN "int64" ELSE "float64"

\* data['time']
ReadCsvTime(column) == [i \in DOMAIN column |-> ParseCell(column[i])]

\* to_csv of one value: an int64 prints its digits, a float64 its shortest repr
FormatCellWhole(dtype, halves) == [units |-> halves \div 2, frac |-> ""]
FormatCell(dtype, halves) ==
    IF dtype = "int64" THEN [units |-> halves \div 2, frac |-> ""]
    ELSE [units |-> halves \div 2, frac |-> IF halves % 2 = 1 THEN ".5" ELSE ".0"]

\* pd.DataFrame({'time': time, 'target': target}).to_csv(...)
ToCsv(dtype, time, tgt) ==
    [exists |-> TRUE,
     time |-> [i \in DOMAIN time |-> FormatCell(dtype, time[i])],
     target |-> [i \in DOMAIN tgt |-> FormatCell("float64", 2 * tgt[i])]]

NoFile == [exists |-> FALSE, time |-> <<>>, target |-> <<>>]

\* np.zeros(len(time))
Ones(n) == [i \in 1..n |-> 1]
Zeros(n) == [i \in 1..n |-> 0]

\* (time > lifetimes[0]) & (time < lifetimes[1]) for one timestep; start and end in units
InLifetimeClosedEnd(halves, start, end) == halves > 2 * start /\ halves <= 2 * end
InLifetime(halves, start, end) == halves > 2 * start /\ halves < 2 * end

\* RE_lifetimes[shot_nr]: a window (start, end), or a list of two intervals
Windows == {<<s, e>> : s \in 0..MaxLabelTime, e \in 0..MaxLabelTime} \cup {ExampleWindow}
ProperWindows == {w \in Windows : w[1] < w[2]}
Lifetimes ==
    {[kind |-> "window", value |-> w] : w \in Windows}
    \cup {[kind |-> "intervals", value |-> <<w1, w2>>] : w1 \in ProperWindows, w2 \in ProperWindows}

SaveReTargets ==
    /\ lb_call = "none"
    /\ UNCHANGED <<rs_vars, ed_vars, mg_vars, csv_vars, agg_vars, ld_vars, cl_vars, ds_vars,
                   sp_vars>>
    /\ \E column \in TimeColumns, lt \in Lifetimes :
        LET time == ReadCsvTime(column)
            dtype == ColumnDtype(column)
            l0 == lt.value[1]
            l1 == lt.value[2]
            zeros == Zeros(Len(time))
        IN
        /\ lb_call' = "save_re_targets"
        /\ features_time' = column
        /\ lifetimes' = lt
        /\ IF lt.kind = "window"
           THEN LET tgt == [i \in DOMAIN zeros |->
                               IF InLifetime(time[i], l0, l1) THEN 1 ELSE zeros[i]]
                IN /\ target' = tgt
                   /\ label_file' = ToCsv(dtype, time, tgt)
                   /\ lb_result' = "returned"
           ELSE IF Len(time) /= Len(l0)
           THEN \* a Series compared with a tuple of another length: ValueError
                /\ target' = <<>>
                /\ label_file' = NoFile
                /\ lb_result' = "ValueError"
           ELSE \* a Series of two rows compared with two tuples, element by element
                LET tgt == [i \in DOMAIN zeros |->
                               IF time[i] > 2 * l0[i] /\ time[i] < 2 * l1[i]
                               THEN 1 ELSE zeros[i]]
                IN /\ target' = tgt
                   /\ label_file' = ToCsv(dtype, time, tgt)
                   /\ lb_result' = "returned"

SaveNoReTargets ==
    /\ lb_call = "none"
    /\ UNCHANGED <<rs_vars, ed_vars, mg_vars, csv_vars, agg_vars, ld_vars, cl_vars, ds_vars,
                   sp_vars>>
    /\ \E column \in TimeColumns :
        LET time == ReadCsvTime(column)
            dtype == ColumnDtype(column)
            tgt == Zeros(Len(time))
        IN
        /\ lb_call' = "save_no_re_targets"
        /\ features_time' = column
        /\ lifetimes' = [kind |-> "none", value |-> <<>>]
        /\ target' = tgt
        /\ label_file' = ToCsv(dtype, time, tgt)
        /\ lb_result' = "returned"

(* ------------------------------ PDF.Edward ----------------------------- *)
AbsDiff(a, b) == IF a >= b THEN a - b ELSE b - a

Min2(a, b) == IF a <= b THEN a ELSE b

\* Python's s[a:b] for 0 <= a: the elements with 0-based index a .. b-1 that exist
SliceExclusive(s, a, b) == SubSeq(s, a + 1, Min2(b, Len(s)) - 1)
Slice(s, a, b) == SubSeq(s, a + 1, Min2(b, Len(s)))

\* (np.abs(t_array - cut_point)).argmin(): the first 0-based index of a smallest distance
ClosestIdxLast(t_array, cut_point) ==
    CHOOSE i \in 0..(Len(t_array) - 1) :
        /\ \A j \in 0..(Len(t_array) - 1) :
               AbsDiff(t_array[i + 1], cut_point) <= AbsDiff(t_array[j + 1], cut_point)
        /\ \A j \in (i + 1)..(Len(t_array) - 1) :
               AbsDiff(t_array[j + 1], cut_point) > AbsDiff(t_array[i + 1], cut_point)

ClosestIdx(t_array, cut_point) ==
    CHOOSE i \in 0..(Len(t_array) - 1) :
        /\ \A j \in 0..(Len(t_array) - 1) :
               AbsDiff(t_array[i + 1], cut_point) <= AbsDiff(t_array[j + 1], cut_point)
        /\ \A j \in 0..(i - 1) :
               AbsDiff(t_array[j + 1], cut_point) > AbsDiff(t_array[i + 1], cut_point)

\* start_idx = closest_idx + 1
NextStartSame(closest_idx) == closest_idx
NextStart(closest_idx) == closest_idx + 1

\* the for loop over the cut points and the final segment: the slices of `series`
RECURSIVE EdwardLoop(_, _, _, _, _)
EdwardLoop(series, t_array, cuts, start_idx, segments) ==
    IF cuts = <<>> THEN Append(segments, Slice(series, start_idx, Len(series)))
    ELSE LET closest_idx == ClosestIdx(t_array, Head(cuts))
         IN EdwardLoop(series, t_array, Tail(cuts), NextStart(closest_idx),
                       Append(segments, Slice(series, start_idx, closest_idx + 1)))

\* if cut_point < t_array[0] or cut_point > t_array[-1]: raise ValueError
OutOfBoundsBelow(t_array, cut_point) == cut_point < t_array[1]
OutOfBounds(t_array, cut_point) ==
    cut_point < t_array[1] \/ cut_point > t_array[Len(t_array)]

CutTimes == UNION {[1..n -> 0..MaxTime] : n \in 0..MaxCuts}

\* the example of the docstring, y = [1,1,1,2,2,2,2,3,3,3], t = [1..10], t_c = [3, 7.5],
\* with the times counted in halves so that 7.5 is the integer 15
EdwardExample ==
    [y |-> <<1, 1, 1, 2, 2, 2, 2, 3, 3, 3>>,
     t |-> <<2, 4, 6, 8, 10, 12, 14, 16, 18, 20>>,
     t_c |-> <<6, 15>>]

\* the series and the cut lists considered: the bounded ones and those of the example
EdwardSeriesInputs == ChannelSeries \cup {[time |-> EdwardExample.t, signal |-> EdwardExample.y]}
EdwardCutInputs == CutTimes \cup {EdwardExample.t_c}

\* src/PDF.py
Edward ==
    /\ ed_call = "none"
    /\ UNCHANGED <<rs_vars, lb_vars, mg_vars, csv_vars, agg_vars, ld_vars, cl_vars, ds_vars,
                   sp_vars>>
    /\ \E series \in EdwardSeriesInputs, t_c \in EdwardCutInputs :
        LET y == series.signal
            t == series.time
        IN
        /\ ed_call' = "Edward"
        /\ ed_args' = [y |-> y, t |-> t, t_c |-> t_c]
        /\ t_cutted' = <<>>
        /\ IF t = <<>> /\ t_c /= <<>>
           THEN \* argmin of an empty sequence
                /\ ed_result' = "ValueError"
                /\ y_c' = <<>>
           ELSE /\ ed_result' = "returned"
                /\ y_c' = EdwardLoop(y, t, t_c, 0, <<>>)

\* src/Download_single_files/PDF.py
EdwardSeries ==
    /\ ed_call = "none"
    /\ UNCHANGED <<rs_vars, lb_vars, mg_vars, csv_vars, agg_vars, ld_vars, cl_vars, ds_vars,
                   sp_vars>>
    /\ \E series \in EdwardSeriesInputs, t_c \in EdwardCutInputs :
        LET y == series.signal
            t == series.time
        IN
        /\ ed_call' = "EdwardSeries"
        /\ ed_args' = [y |-> y, t |-> t, t_c |-> t_c]
        /\ IF t = <<>> /\ t_c /= <<>>
           THEN \* t_array[0] of an empty array
                /\ ed_result' = "IndexError"
                /\ y_c' = <<>>
                /\ t_cutted' = <<>>
           ELSE IF \E k \in DOMAIN t_c : OutOfBounds(t, t_c[k])
           THEN /\ ed_result' = "ValueError"
                /\ y_c' = <<>>
                /\ t_cutted' = <<>>
           ELSE /\ ed_result' = "returned"
                /\ y_c' = EdwardLoop(y, t, t_c, 0, <<>>)
                /\ t_cutted' = EdwardLoop(t, t, t_c, 0, <<>>)

(* ---------------- remote_processing_csv.downsample_and_merge ---------- *)
\* the requested channels, a prefix of the default `keys`
Keys == <<"SSXcore", "IPLA", "DAO_EDG7">>

\* shot[key] as the container parsers leave it: no entry, zero-length arrays, or samples
AbsentChannel == [present |-> FALSE, time |-> <<>>, signal |-> <<>>]
ChannelChoices ==
    {AbsentChannel,
     [present |-> TRUE, time |-> <<>>, signal |-> <<>>],
     [present |-> TRUE, time |-> <<>>, signal |-> <<1>>],
     [present |-> TRUE, time |-> <<0>>, signal |-> <<>>],
     [present |-> TRUE, time |-> <<0>>, signal |-> <<1>>],
     [present |-> TRUE, time |-> <<0, 1>>, signal |-> <<0, 2>>]}

\* a metadata entry of the shot dict: missing, NaN, or a number
Absent == [kind |-> "absent", value |-> 0]
NaN == [kind |-> "nan", value |-> 0]
Num(n) == [kind |-> "num", value |-> n]
Scalars == {Absent, NaN} \cup {Num(n) : n \in 0..MaxTime}

NoShot ==
    [disr_ipla_td |-> Absent, Ramp_up |-> <<Absent, Absent>>, Ramp_down |-> <<Absent, Absent>>,
     channels |-> [key \in {} |-> AbsentChannel]]

\* pd.DataFrame()
EmptyFrame == [columns |-> <<>>, rows |-> <<>>]

\* pd.DataFrame({'time': downsampled_time, key: downsampled_signal})
Frame(key, time, signal) ==
    [columns |-> <<"time", key>>,
     rows |-> [i \in DOMAIN time |-> ("time" :> time[i]) @@ (key :> signal[i])]]

\* DataFrame.empty: some axis has length 0
IsEmptyNever(df) == FALSE
IsEmpty(df) == df.columns = <<>> \/ df.rows = <<>>

RECURSIVE Flatten(_)
Flatten(ss) == IF ss = <<>> THEN <<>> ELSE Head(ss) \o Flatten(Tail(ss))

\* pd.merge(left, right, on='time', how='inner'): every pair of a left and a right row with
\* equal time, in the order of the left rows
InnerMergeLeftColumns(left, right) == left
InnerMerge(left, right) ==
    [columns |-> left.columns \o Tail(right.columns),
     rows |-> Flatten([i \in DOMAIN left.rows |->
                 LET matching == SelectSeq(right.rows,
                                     LAMBDA r : RatEq(r["time"], left.rows[i]["time"]))
                 IN [j \in DOMAIN matching |-> left.rows[i] @@ matching[j]]])]

\* downsample_timeseries of the final revision for a window with end_time > begin_time
Resampled(begin_time, end_time, time_series, signal_series, timestep_size) ==
    LET grid == Arange(begin_time, end_time, timestep_size)
        mask == Mask(time_series, begin_time, end_time)
        filtered_time_series == Filtered(time_series, mask)
        filtered_signal_series == Filtered(signal_series, mask)
        smooth == GaussianFilter1d(Interp(grid, filtered_time_series, filtered_signal_series))
    IN [time |-> [i \in DOMAIN grid |-> Rat(grid[i])],
        signal |-> IF Len(filtered_time_series) = 0
                   THEN [i \in DOMAIN grid |-> <<0, SignalDenom>>]
                   ELSE [i \in DOMAIN grid |-> <<smooth[i], SignalDenom>>]]

\* np.isnan(shot['disr_ipla_td']) or shot['disr_ipla_td'] < shot['Ramp_up'][1]
InvalidDisruptionStrict(disr_ipla_td, ramp_up_end) ==
    disr_ipla_td.kind = "nan" \/ disr_ipla_td.value <= ramp_up_end.value
InvalidDisruption(disr_ipla_td, ramp_up_end) ==
    disr_ipla_td.kind = "nan" \/ disr_ipla_td.value < ramp_up_end.value

\* t_b, t_e = shot['disr_ipla_td'] - 1, shot['disr_ipla_td'] + 5
WindowBegin(disr_ipla_td) == disr_ipla_td - 1
WindowEndShort(disr_ipla_td) == disr_ipla_td
WindowEnd(disr_ipla_td) == disr_ipla_td + 5

\* key not in shot or len(shot[key]['time']) == 0 or len(shot[key]['signal']) == 0
NotAvailable(channel) ==
    ~channel.present \/ Len(channel.time) = 0 \/ Len(channel.signal) = 0

\* what the loop over the keys has built so far
MergeStart ==
    [result |-> "returned", merged_df |-> EmptyFrame, frames |-> <<>>, row_counts |-> <<>>,
     log |-> <<>>]

\* merged_df = downsampled_df if merged_df.empty, else the inner join on 'time'
Merged(acc, downsampled_df) ==
    LET merged == IF IsEmpty(acc.merged_df) THEN downsampled_df
                  ELSE InnerMerge(acc.merged_df, downsampled_df)
    IN [acc EXCEPT !.merged_df = merged,
                   !.frames = Append(@, downsampled_df),
                   !.row_counts = Append(@, Len(merged.rows))]

\* for key in keys: ...
RECURSIVE MergeLoop(_, _, _, _, _, _)
MergeLoop(channels, keys, t_b, t_e, timestep_size, acc) ==
    IF keys = <<>> THEN acc
    ELSE LET key == Head(keys)
             channel == channels[key]
         IN IF NotAvailable(channel)
            THEN MergeLoop(channels, Tail(keys), t_b, t_e, timestep_size,
                     [acc EXCEPT !.log = Append(@, [line |-> "not available", key |-> key])])
            ELSE LET ds == Resampled(t_b, t_e, channel.time, channel.signal, timestep_size)
                 IN MergeLoop(channels, Tail(keys), t_b, t_e, timestep_size,
                              Merged(acc, Frame(key, ds.time, ds.signal)))

\* downsample_and_merge(shot, file_name, keys, timestep_size): how it ends, what it
\* returns, the frames it built and the lines it printed
MergeOutcome(shot, keys, timestep_size) ==
    LET disr_ipla_td == shot.disr_ipla_td
        ramp_up_end == shot.Ramp_up[2]
        out == MergeLoop(shot.channels, keys, WindowBegin(disr_ipla_td.value),
                         WindowEnd(disr_ipla_td.value), timestep_size, MergeStart)
    IN IF disr_ipla_td.kind = "absent"
          \/ (disr_ipla_td.kind = "num" /\ ramp_up_end.kind = "absent")
       THEN \* shot['disr_ipla_td'] or shot['Ramp_up'] of a dict without that key
            [MergeStart EXCEPT !.result = "KeyError"]
       ELSE IF InvalidDisruption(disr_ipla_td, ramp_up_end)
       THEN [MergeStart EXCEPT !.log = <<[line |-> "can not be processed", key |-> ""]>>]
       ELSE out

DownsampleAndMerge ==
    /\ mg_call = "none"
    /\ UNCHANGED <<rs_vars, lb_vars, ed_vars, csv_vars, agg_vars, ld_vars, cl_vars, ds_vars,
                   sp_vars>>
    /\ \E disr_ipla_td \in Scalars, ramp_up_end \in {Absent} \cup {Num(n) : n \in 0..MaxTime},
          channels \in [{Keys[k] : k \in DOMAIN Keys} -> ChannelChoices],
          timestep_size \in 1..MaxStep :
        LET shot == [disr_ipla_td |-> disr_ipla_td, Ramp_up |-> <<ramp_up_end, ramp_up_end>>,
                     Ramp_down |-> <<Absent, Absent>>, channels |-> channels]
            out == MergeOutcome(shot, Keys, timestep_size)
        IN
        /\ mg_call' = "final"
        /\ mg_args' = [shot |-> shot, keys |-> Keys, timestep_size |-> timestep_size,
                       length |-> 0]
        /\ mg_result' = out.result
        /\ merged_df' = out.merged_df
        /\ mg_frames' = out.frames
        /\ mg_row_counts' = out.row_counts
        /\ mg_log' = out.log

(* ---------------- Processing_Data/downsampling.downsample_and_merge ----- *)
\* downsample_timeseries of the binning revision: the error it raises, or its two arrays
Binned(begin_time, end_time, time_series, signal_series, length) ==
    LET mask == Mask(time_series, begin_time, end_time)
        df_time == Filtered(time_series, mask)
        df_signal == Filtered(signal_series, mask)
        bin == [i \in DOMAIN df_time |-> CutBin(df_time[i], begin_time, end_time, length)]
    IN IF CutRaises(begin_time, end_time, length)
       THEN [result |-> "ValueError", time |-> <<>>, signal |-> <<>>]
       ELSE [result |-> "returned", time |-> Linspace(begin_time, end_time, length),
             signal |-> GroupbyMean(bin, df_signal, length)]

\* for key in keys: ... ; shot[key] of a missing key raises KeyError, a frame of two
\* arrays of different length raises ValueError
RECURSIVE MergeLoopLegacy(_, _, _, _, _, _)
MergeLoopLegacy(channels, keys, t_b, t_e, length, acc) ==
    IF keys = <<>> THEN acc
    ELSE LET key == Head(keys)
             channel == channels[key]
             ds == Binned(t_b, t_e, channel.time, channel.signal, length)
         IN IF ~channel.present THEN [acc EXCEPT !.result = "KeyError"]
            ELSE IF Len(channel.time) = 0 \/ Len(channel.signal) = 0
            THEN MergeLoopLegacy(channels, Tail(keys), t_b, t_e, length,
                     Merged(acc, Frame(key, Linspace(t_b, t_e, length),
                                       [i \in 1..length |-> Rat(0)])))
            ELSE IF ds.result /= "returned" \/ Len(ds.signal) /= Len(ds.time)
            THEN [acc EXCEPT !.result = "ValueError"]
            ELSE MergeLoopLegacy(channels, Tail(keys), t_b, t_e, length,
                                 Merged(acc, Frame(key, ds.time, ds.signal)))

DownsampleAndMergeLegacy ==
    /\ mg_call = "none"
    /\ UNCHANGED <<rs_vars, lb_vars, ed_vars, csv_vars, agg_vars, ld_vars, cl_vars, ds_vars,
                   sp_vars>>
    /\ \E ramp_up_start \in 0..MaxTime, ramp_down_end \in 0..MaxTime,
          channels \in [{Keys[k] : k \in DOMAIN Keys} -> ChannelChoices],
          length \in 1..MaxLength :
        LET shot == [disr_ipla_td |-> Absent,
                     Ramp_up |-> <<Num(ramp_up_start), Absent>>,
                     Ramp_down |-> <<Absent, Num(ramp_down_end)>>, channels |-> channels]
            out == MergeLoopLegacy(channels, Keys, ramp_up_start, ramp_down_end, length,
                                   MergeStart)
        IN
        /\ mg_call' = "legacy"
        /\ mg_args' = [shot |-> shot, keys |-> Keys, timestep_size |-> 0, length |-> length]
        /\ mg_result' = out.result
        /\ merged_df' = IF out.result = "returned" THEN out.merged_df ELSE EmptyFrame
        /\ mg_frames' = out.frames
        /\ mg_row_counts' = out.row_counts
        /\ mg_log' = <<>>

(* ---------------- remote_processing_csv.main --------------------------- *)
\* the shot identifiers of the raw files: JETno1.<ext>, JETno2.<ext>
ShotIds == {"JETno1", "JETno2"}

\* what a container parser returns for a raw file: the shot dict of a shot without the
\* key disr_ipla_td, with a NaN, a too early or a valid disruption time, or of a valid shot
\* without any requested channel
OneChannel ==
    [key \in {Keys[k] : k \in DOMAIN Keys} |->
        IF key = Keys[2] THEN [present |-> TRUE, time |-> <<0, 1>>, signal |-> <<0, 2>>]
        ELSE AbsentChannel]
NoChannel == [key \in {Keys[k] : k \in DOMAIN Keys} |-> AbsentChannel]
ShotDict(disr_ipla_td, channels) ==
    [disr_ipla_td |-> disr_ipla_td, Ramp_up |-> <<Num(0), Num(1)>>,
     Ramp_down |-> <<Absent, Absent>>, channels |-> channels]
ShotDicts ==
    {ShotDict(disr_ipla_td, OneChannel) : disr_ipla_td \in {Absent, NaN, Num(0), Num(1)}}
        \cup {ShotDict(Num(1), NoChannel)}

\* a raw file: its name (identifier and extension) and what parsing it gives; a file the
\* parser cannot read (loadmat or h5py raising, no SIG group) is "unreadable"
Unreadable == [readable |-> FALSE, shot |-> NoShot]
Readable(shot) == [readable |-> TRUE, shot |-> shot]
RawFiles ==
    {[id |-> id, ext |-> ext, data |-> data] :
        id \in ShotIds, ext \in {"mat", "h5"},
        data \in {Unreadable} \cup {Readable(shot) : shot \in ShotDicts}}

\* a directory listing: files with pairwise different names, in the order of os.listdir
Listings ==
    UNION {{l \in [1..n -> RawFiles] :
               \A i, j \in 1..n : i /= j => (l[i].id /= l[j].id \/ l[i].ext /= l[j].ext)}
           : n \in 0..MaxFiles}

\* an output file: missing, or the rows written so far
NoCsv == [exists |-> FALSE, complete |-> FALSE, columns |-> <<>>, rows |-> <<>>]
CsvOf(df) == [exists |-> TRUE, complete |-> TRUE, columns |-> df.columns, rows |-> df.rows]
PartialCsvOf(df, n) ==
    [exists |-> TRUE, complete |-> FALSE, columns |-> df.columns, rows |-> SubSeq(df.rows, 1, n)]

\* os.path.exists(output_file)
ExistsNever(file) == FALSE
Exists(file) == file.exists

\* main up to the for loop: the folder is created if missing, the directory is listed
CsvMain ==
    /\ csv_status = "none"
    /\ UNCHANGED <<rs_vars, lb_vars, ed_vars, mg_vars, agg_vars, ld_vars, cl_vars, ds_vars,
                   sp_vars>>
    /\ \E listing \in Listings :
        /\ remote_files' = listing
        /\ jet_files' = listing
    /\ csv_status' = "running"
    /\ csv_pos' = 1
    /\ csv_parsed' = <<>>
    /\ csv_log' = <<>>
    /\ UNCHANGED output_folder

\* main started again on the same directory and the same output folder
CsvMainAgain ==
    /\ csv_status \in {"finished", "aborted", "interrupted"}
    /\ UNCHANGED <<rs_vars, lb_vars, ed_vars, mg_vars, agg_vars, ld_vars, cl_vars, ds_vars,
                   sp_vars>>
    /\ jet_files' = remote_files
    /\ csv_status' = "running"
    /\ csv_pos' = 1
    /\ csv_parsed' = <<>>
    /\ csv_log' = <<>>
    /\ UNCHANGED <<remote_files, output_folder>>

\* one pass of the for loop: process_and_save_as_csv(file_path, output_folder)
ProcessAndSaveAsCsv ==
    /\ csv_status = "running"
    /\ csv_pos <= Len(jet_files)
    /\ UNCHANGED <<rs_vars, lb_vars, ed_vars, mg_vars, agg_vars, ld_vars, cl_vars, ds_vars,
                   sp_vars, remote_files, jet_files>>
    /\ LET file == jet_files[csv_pos]
           output_file == output_folder[file.id]
           out == MergeOutcome(file.data.shot, Keys, 1)
           Line(text, error) == [line |-> text, file |-> csv_pos, error |-> error]
       IN
       IF Exists(output_file)
       THEN /\ csv_log' = Append(csv_log, Line("already exists", ""))
            /\ csv_pos' = csv_pos + 1
            /\ UNCHANGED <<csv_status, output_folder, csv_parsed>>
       ELSE
       /\ csv_parsed' = Append(csv_parsed, csv_pos)
       /\ IF ~file.data.readable
          THEN \* the parser raises outside the try block: main ends with the exception
               /\ csv_status' = "aborted"
               /\ UNCHANGED <<csv_pos, output_folder, csv_log>>
          ELSE IF out.result /= "returned"
          THEN /\ csv_log' = Append(csv_log, Line("Failed to process", out.result))
               /\ csv_pos' = csv_pos + 1
               /\ UNCHANGED <<csv_status, output_folder>>
          ELSE IF IsEmpty(out.merged_df)
          THEN \* raise ValueError("")
               /\ csv_log' = Append(csv_log, Line("Failed to process", "ValueError"))
               /\ csv_pos' = csv_pos + 1
               /\ UNCHANGED <<csv_status, output_folder>>
          ELSE \* merged_df.to_csv(output_file, index=False)
               \/ /\ output_folder' = [output_folder EXCEPT ![file.id] = CsvOf(out.merged_df)]
                  /\ csv_log' = Append(csv_log, Line("Saved", ""))
                  /\ csv_pos' = csv_pos + 1
                  /\ UNCHANGED csv_status
               \/ \* the file cannot be opened for writing
                  /\ csv_log' = Append(csv_log, Line("Failed to process", "OSError"))
                  /\ csv_pos' = csv_pos + 1
                  /\ UNCHANGED <<csv_status, output_folder>>
               \/ \* writing fails after some rows
                  \E n \in 0..(Len(out.merged_df.rows) - 1) :
                      /\ output_folder' =
                             [output_folder EXCEPT ![file.id] = PartialCsvOf(out.merged_df, n)]
                      /\ csv_log' = Append(csv_log, Line("Failed to process", "OSError"))
                      /\ csv_pos' = csv_pos + 1
                      /\ UNCHANGED csv_status
               \/ \* the process is stopped while writing
                  \E n \in 0..(Len(out.merged_df.rows) - 1) :
                      /\ output_folder' =
                             [output_folder EXCEPT ![file.id] = PartialCsvOf(out.merged_df, n)]
                      /\ csv_status' = "interrupted"
                      /\ UNCHANGED <<csv_pos, csv_log>>

\* the for loop is exhausted: main returns
CsvMainReturns ==
    /\ csv_status = "running"
    /\ csv_pos > Len(jet_files)
    /\ csv_status' = "finished"
    /\ UNCHANGED <<rs_vars, lb_vars, ed_vars, mg_vars, agg_vars, ld_vars, cl_vars, ds_vars,
                   sp_vars, remote_files, jet_files, csv_pos,
                   output_folder, csv_parsed, csv_log>>

\* the process is stopped from outside between two files
CsvInterrupted ==
    /\ csv_status = "running"
    /\ csv_pos <= Len(jet_files)
    /\ csv_status' = "interrupted"
    /\ UNCHANGED <<rs_vars, lb_vars, ed_vars, mg_vars, agg_vars, ld_vars, cl_vars, ds_vars,
                   sp_vars, remote_files, jet_files, csv_pos,
                   output_folder, csv_parsed, csv_log>>

(* ---------------- remote_processing.main ------------------------------- *)
\* a dict shot_number -> processed_data
EmptyDict == [id \in {} |-> NoShot]
\* all_data[shot_number] = processed_data
Put(dict, key, value) ==
    [id \in DOMAIN dict \cup {key} |-> IF id = key THEN value ELSE dict[id]]

\* the raw files of the aggregate run: unreadable, or one of two different shot dicts
AggListings ==
    {l \in Listings :
        \A i \in DOMAIN l :
            l[i].data \in {Unreadable, Readable(ShotDict(Num(0), OneChannel)),
                           Readable(ShotDict(Num(1), OneChannel))}}

\* the checkpoint file: missing, completely written, or cut off in the middle
NoPickle == [state |-> "missing", data |-> EmptyDict]
Pickled(data) == [state |-> "complete", data |-> data]
PartialPickle == [state |-> "partial", data |-> EmptyDict]

\* if shot_number in processed_shots
AlreadyProcessedNever(shot_number, processed) == FALSE
AlreadyProcessed(shot_number, processed) == shot_number \in processed

\* main up to the for loop, first run: there is no checkpoint yet, load_existing_data
\* returns {}; the temp directory may or may not lie on the file system of the checkpoint
AggMain ==
    /\ agg_status = "none"
    /\ UNCHANGED <<rs_vars, lb_vars, ed_vars, mg_vars, csv_vars, ld_vars, cl_vars, ds_vars,
                   sp_vars>>
    /\ \E listing \in AggListings, same \in BOOLEAN :
        /\ agg_files' = listing
        /\ same_filesystem' = same
    /\ agg_status' = "running"
    /\ agg_pos' = 1
    /\ all_data' = EmptyDict
    /\ processed_shots' = {}
    /\ agg_loaded' = EmptyDict
    /\ agg_parsed' = <<>>
    /\ agg_log' = <<>>
    /\ UNCHANGED <<pickle_file, agg_persisted>>

\* main started again: load_existing_data reads the checkpoint; pickle.load of a file
\* that was cut off raises, which ends main
AggMainAgain ==
    /\ agg_status \in {"finished", "aborted", "interrupted"}
    /\ UNCHANGED <<rs_vars, lb_vars, ed_vars, mg_vars, csv_vars, ld_vars, cl_vars, ds_vars,
                   sp_vars>>
    /\ agg_pos' = 1
    /\ agg_parsed' = <<>>
    /\ agg_log' = <<>>
    /\ IF pickle_file.state = "partial"
       THEN /\ agg_status' = "aborted"
            /\ all_data' = EmptyDict
            /\ processed_shots' = {}
            /\ agg_loaded' = EmptyDict
       ELSE /\ agg_status' = "running"
            /\ all_data' = pickle_file.data
            /\ processed_shots' = DOMAIN pickle_file.data
            /\ agg_loaded' = pickle_file.data
    /\ UNCHANGED <<agg_files, same_filesystem, pickle_file, agg_persisted>>

\* one pass of the for loop, save_to_pickle included
AggProcessFile ==
    /\ agg_status = "running"
    /\ agg_pos <= Len(agg_files)
    /\ UNCHANGED <<rs_vars, lb_vars, ed_vars, mg_vars, csv_vars, ld_vars, cl_vars, ds_vars,
                   sp_vars>>
    /\ UNCHANGED <<agg_files, same_filesystem, processed_shots, agg_loaded>>
    /\ LET file == agg_files[agg_pos]
           shot_number == file.id
           stored == Put(all_data, shot_number, file.data.shot)
           Line(text) == [line |-> text, file |-> agg_pos]
       IN
       IF AlreadyProcessed(shot_number, processed_shots)
       THEN /\ agg_log' = Append(agg_log, Line("Skipping already processed file"))
            /\ agg_pos' = agg_pos + 1
            /\ UNCHANGED <<agg_status, pickle_file, all_data, agg_persisted, agg_parsed>>
       ELSE
       /\ agg_parsed' = Append(agg_parsed, agg_pos)
       /\ IF ~file.data.readable
          THEN \* the parser raises: main ends with the exception
               /\ agg_status' = "aborted"
               /\ agg_log' = Append(agg_log, Line("Processing file"))
               /\ UNCHANGED <<agg_pos, pickle_file, all_data, agg_persisted>>
          ELSE
          /\ all_data' = stored
          /\ \/ \* pickle.dump to the temp file, then shutil.move, both complete
                /\ pickle_file' = Pickled(stored)
                /\ agg_persisted' = agg_persisted \cup DOMAIN stored
                /\ agg_log' = agg_log \o <<Line("Processing file"), Line("Data saved")>>
                /\ agg_pos' = agg_pos + 1
                /\ UNCHANGED agg_status
             \/ \* the process is stopped while the temp file is written
                /\ agg_status' = "interrupted"
                /\ agg_log' = Append(agg_log, Line("Processing file"))
                /\ UNCHANGED <<agg_pos, pickle_file, agg_persisted>>
             \/ \* the process is stopped inside shutil.move: across file systems the move
                \* is a copy that first truncates the checkpoint and then fills it
                /\ ~same_filesystem
                /\ pickle_file' = PartialPickle
                /\ agg_status' = "interrupted"
                /\ agg_log' = Append(agg_log, Line("Processing file"))
                /\ UNCHANGED <<agg_pos, agg_persisted>>

\* the for loop is exhausted: main returns
AggMainReturns ==
    /\ agg_status = "running"
    /\ agg_pos > Len(agg_files)
    /\ agg_status' = "finished"
    /\ UNCHANGED <<rs_vars, lb_vars, ed_vars, mg_vars, csv_vars, ld_vars, cl_vars, ds_vars,
                   sp_vars>>
    /\ UNCHANGED <<agg_files, agg_pos, same_filesystem, pickle_file, all_data, processed_shots,
                   agg_loaded, agg_persisted, agg_parsed, agg_log>>

\* the process is stopped from outside between two files
AggInterrupted ==
    /\ agg_status = "running"
    /\ agg_pos <= Len(agg_files)
    /\ agg_status' = "interrupted"
    /\ UNCHANGED <<rs_vars, lb_vars, ed_vars, mg_vars, csv_vars, ld_vars, cl_vars, ds_vars,
                   sp_vars>>
    /\ UNCHANGED <<agg_files, agg_pos, same_filesystem, pickle_file, all_data, processed_shots,
                   agg_loaded, agg_persisted, agg_parsed, agg_log>>

(* ---------------- create_labels.load_and_process_data ------------------- *)
ShotNumbers == 1..MaxShots

\* os.listdir(base_path): the features files JETno<shot>.csv, one per shot, in any order
Directories ==
    UNION {{d \in [1..n -> ShotNumbers] : \A i, j \in 1..n : d[i] = d[j] => i = j}
           : n \in 0..MaxShots}

\* the first column of RE_autom.csv or RE_valid.csv: shot numbers, repeated or not, with or
\* without a features file
ShotLists == UNION {[1..n -> ShotNumbers] : n \in 0..MaxListed}

\* the columns of the features files of one directory
ColumnChoices == {<<"time", "IPLA">>, <<"IPLA", "SSXcore">>}

\* the keys of the dict dataframes
Shots(frames) == {frames[i].shot : i \in DOMAIN frames}

\* dataframes[shot]
FrameOf(frames, shot) == frames[CHOOSE i \in DOMAIN frames : frames[i].shot = shot]

\* [shot for shot in RE_autom if shot in dataframes]
RECURSIVE InDataframes(_, _)
InDataframes(list, frames) ==
    IF list = <<>> THEN <<>>
    ELSE IF Head(list) \in Shots(frames)
         THEN <<Head(list)>> \o InDataframes(Tail(list), frames)
         ELSE InDataframes(Tail(list), frames)

\* [shot for shot in dataframes if shot not in RE_autom and shot not in RE_valid]
RECURSIVE NoReAutomOnly(_, _, _)
NoReAutomOnly(frames, autom, valid) ==
    IF frames = <<>> THEN <<>>
    ELSE IF \A i \in DOMAIN autom : autom[i] /= Head(frames).shot
         THEN <<Head(frames).shot>> \o NoReAutomOnly(Tail(frames), autom, valid)
         ELSE NoReAutomOnly(Tail(frames), autom, valid)

RECURSIVE NoRe(_, _, _)
NoRe(frames, autom, valid) ==
    IF frames = <<>> THEN <<>>
    ELSE IF /\ \A i \in DOMAIN autom : autom[i] /= Head(frames).shot
            /\ \A i \in DOMAIN valid : valid[i] /= Head(frames).shot
         THEN <<Head(frames).shot>> \o NoRe(Tail(frames), autom, valid)
         ELSE NoRe(Tail(frames), autom, valid)

\* list.remove(x): drops the first occurrence
RECURSIVE Remove(_, _)
Remove(list, x) ==
    IF list = <<>> THEN <<>>
    ELSE IF Head(list) = x THEN Tail(list) ELSE <<Head(list)>> \o Remove(Tail(list), x)

\* list(dataframes[NO_RE_probably[0]].keys()) if NO_RE_probably else [], without 'time'
Features(frames, no_re) ==
    LET keys == IF no_re = <<>> THEN <<>> ELSE FrameOf(frames, no_re[1]).columns
    IN IF \E i \in DOMAIN keys : keys[i] = "time" THEN Remove(keys, "time") ELSE keys

\* the whole function; check_nans_infs works on the cells of the frames (modelled apart) and
\* leaves the keys of the dict and the columns as they are
LoadAndProcessData ==
    /\ ld_call = "none"
    /\ UNCHANGED <<rs_vars, lb_vars, ed_vars, mg_vars, csv_vars, agg_vars, cl_vars, ds_vars,
                   sp_vars>>
    /\ \E files \in Directories, re_autom \in ShotLists, re_valid \in ShotLists,
          columns \in ColumnChoices :
        LET frames == [i \in DOMAIN files |-> [shot |-> files[i], columns |-> columns]]
            autom == InDataframes(re_autom, frames)
            valid == InDataframes(re_valid, frames)
            no_re == NoRe(frames, autom, valid)
        IN
        /\ ld_call' = "load_and_process_data"
        /\ ld_args' = [files |-> files, re_autom |-> re_autom, re_valid |-> re_valid]
        /\ dataframes' = frames
        /\ RE_autom' = autom
        /\ RE_valid' = valid
        /\ NO_RE_probably' = no_re
        /\ features' = Features(frames, no_re)

(* ---------------- EDA.check_nans_infs, EDA.check_nans_infs_pdf ---------- *)
\* np.inf and -np.inf
PosInf == [kind |-> "inf", value |-> 1]
NegInf == [kind |-> "inf", value |-> -1]

\* the cells of the signal column
CellChoices == {Num(0), Num(1), NaN, PosInf, NegInf}

FrameColumns == {"time", "IPLA"}

\* a DataFrame as the sequence of its rows: the time column counts the rows, the signal
\* column holds any cell
DataFrames ==
    UNION {{[i \in 1..n |-> [time |-> Num(i), IPLA |-> cells[i]]] : cells \in [1..n -> CellChoices]}
           : n \in 0..MaxFrameRows}

\* df.isna() and np.isinf(df), cell by cell
IsNa(cell) == cell.kind = "nan"
IsInfPositive(cell) == cell = PosInf
IsInf(cell) == cell.kind = "inf"

\* df.isna().sum().sum()
CountNa(df) == Cardinality({ic \in (DOMAIN df) \X FrameColumns : IsNa(df[ic[1]][ic[2]])})

\* np.isinf(df).sum().sum()
CountInf(df) == Cardinality({ic \in (DOMAIN df) \X FrameColumns : IsInf(df[ic[1]][ic[2]])})

\* df.fillna(0, inplace=True)
Fillna(df) ==
    [i \in DOMAIN df |-> [c \in FrameColumns |-> IF IsNa(df[i][c]) THEN Num(0) ELSE df[i][c]]]

\* df.dropna(inplace=True): the rows without a missing cell, in their order
RECURSIVE Dropna(_)
Dropna(df) ==
    IF df = <<>> THEN <<>>
    ELSE IF \E c \in FrameColumns : IsNa(Head(df)[c])
         THEN Dropna(Tail(df))
         ELSE <<Head(df)>> \o Dropna(Tail(df))

\* df.replace([np.inf, -np.inf], np.nan, inplace=True)
ReplaceInf(df) ==
    [i \in DOMAIN df |-> [c \in FrameColumns |-> IF IsInf(df[i][c]) THEN NaN ELSE df[i][c]]]

\* the lines one frame makes the functions print
CleaningLines(key, nans, infs, first, second) ==
    (IF nans > 0 /\ first /= "" THEN <<[key |-> key, count |-> nans, line |-> first]>> ELSE <<>>)
    \o (IF infs > 0 /\ second /= "" THEN <<[key |-> key, count |-> infs, line |-> second]>>
        ELSE <<>>)

\* the lines of the whole dict, frame after frame
CleaningLog(frames, first, second) ==
    LET a == "JETno1"
        b == "JETno2"
    IN CleaningLines(a, CountNa(frames[a]), CountInf(frames[a]), first, second)
       \o CleaningLines(b, CountNa(frames[b]), CountInf(frames[b]), first, second)

CheckNansInfs ==
    /\ cl_call = "none"
    /\ UNCHANGED <<rs_vars, lb_vars, ed_vars, mg_vars, csv_vars, agg_vars, ld_vars, ds_vars,
                   sp_vars>>
    /\ \E frames \in [ShotIds -> DataFrames] :
        /\ cl_call' = "check_nans_infs"
        /\ cl_args' = [dataframes |-> frames, drop |-> FALSE]
        /\ cl_frames' = [key \in ShotIds |->
                            IF CountNa(frames[key]) > 0 THEN Fillna(frames[key])
                            ELSE frames[key]]
        /\ cl_log' = CleaningLog(frames, "NaNs found. Replacing NaNs with 0.", "Infs found.")

CheckNansInfsPdf ==
    /\ cl_call = "none"
    /\ UNCHANGED <<rs_vars, lb_vars, ed_vars, mg_vars, csv_vars, agg_vars, ld_vars, ds_vars,
                   sp_vars>>
    /\ \E frames \in [ShotIds -> DataFrames], drop \in BOOLEAN :
        /\ cl_call' = "check_nans_infs_pdf"
        /\ cl_args' = [dataframes |-> frames, drop |-> drop]
        /\ cl_frames' = [key \in ShotIds |->
                            LET df == frames[key]
                                \* both counts are taken before anything is dropped
                                nans == CountNa(df)
                                infs == CountInf(df)
                                no_nans == IF nans > 0 /\ drop THEN Dropna(df) ELSE df
                            IN IF infs > 0 /\ drop THEN Dropna(ReplaceInf(no_nans))
                               ELSE no_nans]
        /\ cl_log' = IF drop
                     THEN CleaningLog(frames, "NaNs found. Dropping rows with NaNs.",
                                      "Infs found. Dropping them.")
                     ELSE <<>>

(* ---------------- Models/helpers.IndependentCSVDataset ----------------- *)
\* features_sequence, two names of the default six
FeaturesSequence == <<"SSXcore", "IPLA">>

\* the columns a features file can have next to 'time'
FileColumns == {{"SSXcore", "IPLA"}, {"SSXcore"}}

\* a file name with what <data_path>/features/<name> and <data_path>/targets/<name> hold:
\* the number of rows, the feature columns, and the target column, which save_re_targets and
\* save_no_re_targets write with one value per row of the features file
DatasetFiles ==
    UNION {{[rows |-> n, columns |-> columns, target |-> y]
               : columns \in FileColumns, y \in [1..n -> {0, 1}]}
           : n \in 0..MaxSeqLength}

\* df_features[key] at the 1-based row r: a value that tells the column and the row
FeatureCell(k, r) == 10 * k + r

\* x_file = np.column_stack(x_list): row r holds, for every name of features_sequence, the
\* column of the file or the zero of np.zeros(time_length)
XFile(file, features_sequence) ==
    [r \in 1..file.rows |->
        [k \in DOMAIN features_sequence |->
            IF features_sequence[k] \in file.columns THEN FeatureCell(k, r) ELSE 0]]

\* range(0, stop, step) for step >= 1
PyRangeInclusive(stop, step) ==
    IF stop < 0 THEN <<>> ELSE [k \in 1..(stop \div step + 1) |-> (k - 1) * step]
PyRange(stop, step) ==
    IF stop <= 0 THEN <<>> ELSE [k \in 1..CeilDiv(stop, step) |-> (k - 1) * step]

\* the inner for loop: one (x_chunk, y_chunk) per start
Chunks(x_file, y_file, seq_length, window, stride) ==
    LET starts == PyRange(seq_length - window + 1, stride)
    IN [k \in DOMAIN starts |->
           [x |-> Slice(x_file, starts[k], starts[k] + window),
            y |-> Slice(y_file, starts[k], starts[k] + window)]]

\* the outer for loop over the shuffled list
RECURSIVE DatasetLoop(_, _, _, _, _, _)
DatasetLoop(list, pos, seq_length, window, stride, acc) ==
    IF pos > Len(list) THEN acc
    ELSE LET file == list[pos]
             time_length == file.rows
         IN IF time_length /= seq_length
            THEN DatasetLoop(list, pos + 1, seq_length, window, stride,
                             [acc EXCEPT !.log = Append(@, pos)])
            ELSE DatasetLoop(list, pos + 1, seq_length, window, stride,
                             [acc EXCEPT !.samples =
                                 @ \o Chunks(XFile(file, FeaturesSequence), file.target,
                                             seq_length, window, stride)])

\* random.shuffle(features_list): any order of the same files
Shuffles(list) ==
    {[i \in DOMAIN list |-> list[p[i]]] :
        p \in {q \in [DOMAIN list -> DOMAIN list] : \A i, j \in DOMAIN list : q[i] = q[j] => i = j}}

\* the constructor
IndependentCSVDataset ==
    /\ ds_call = "none"
    /\ UNCHANGED <<rs_vars, lb_vars, ed_vars, mg_vars, csv_vars, agg_vars, ld_vars, cl_vars,
                   sp_vars>>
    /\ \E first \in DatasetFiles, second \in DatasetFiles, seq_length \in 1..MaxSeqLength,
          window \in 1..MaxWindow, stride \in 1..MaxStride :
        \E shuffled \in Shuffles(<<first, second>>) :
            LET out == DatasetLoop(shuffled, 1, seq_length, window, stride,
                                   [samples |-> <<>>, log |-> <<>>])
            IN
            /\ ds_call' = "IndependentCSVDataset"
            /\ ds_args' = [features_list |-> <<first, second>>, seq_length |-> seq_length,
                           window |-> window, stride |-> stride]
            /\ ds_features_list' = shuffled
            /\ samples' = out.samples
            /\ ds_log' = out.log

(* ---------------- Models/load_data.load_all_data ----------------------- *)
\* a features_list of n different file names
FileNames(n) == [i \in 1..n |-> i]

\* the fractions between 0 and 1 that test_size and mini_test_size are taken from
SizeFractions == {<<p, SizeSteps>> : p \in 0..SizeSteps}

\* int(len(features_list) * size), with the product taken exactly
IntOfProduct(length, size) == (length * size[1]) \div size[2]

\* features_list[:test_size], features_list[test_size:mini_test_size],
\* features_list[mini_test_size:], the sizes being the integers
TestList(list, test_size) == Slice(list, 0, test_size)
TrainListFromStart(list, test_size, mini_test_size) == Slice(list, 0, mini_test_size)
TrainList(list, test_size, mini_test_size) == Slice(list, test_size, mini_test_size)
MiniTestList(list, mini_test_size) == Slice(list, mini_test_size, Len(list))

\* the shuffle and the split; random.seed(42) fixes one order for every length, taken here
\* as any order.  The loops that follow read the files of each list in its order.
LoadAllData ==
    /\ sp_call = "none"
    /\ UNCHANGED <<rs_vars, lb_vars, ed_vars, mg_vars, csv_vars, agg_vars, ld_vars, cl_vars,
                   ds_vars>>
    /\ \E n \in 0..MaxListLength, size \in SizeFractions, mini_size \in SizeFractions :
        \E shuffled \in Shuffles(FileNames(n)) :
            LET test_size == IntOfProduct(Len(shuffled), size)
                mini_test_size == IntOfProduct(Len(shuffled), mini_size)
            IN
            /\ sp_call' = "load_all_data"
            /\ sp_args' = [features_list |-> FileNames(n), test_size |-> size,
                           mini_test_size |-> mini_size]
            /\ sp_features_list' = shuffled
            /\ test_list' = TestList(shuffled, test_size)
            /\ train_list' = TrainList(shuffled, test_size, mini_test_size)
            /\ mini_test_list' = MiniTestList(shuffled, mini_test_size)

(* ------------------------- claims: resampler -------------------------- *)
\* the samples of the last call's series that lie in the closed window
InWindow(i) ==
    /\ rs_args.time_series[i] >= rs_args.begin_time
    /\ rs_args.time_series[i] <= rs_args.end_time

\* C1: the interpolating resampler called with end_time <= begin_time raises
\* ValueError and produces no output.
C1_InvalidWindowRaises ==
    (rs_call = "interp" /\ rs_args.end_time <= rs_args.begin_time)
        => /\ rs_result = "ValueError"
           /\ downsampled_time = <<>>
           /\ downsampled_signal = <<>>

\* C1 witness: a call with end_time = begin_time and a sample at that time was refused
C1_Witness ==
    /\ rs_call = "interp"
    /\ rs_args.end_time = rs_args.begin_time
    /\ \E i \in DOMAIN rs_args.time_series : rs_args.time_series[i] = rs_args.begin_time
    /\ rs_result = "ValueError"

\* C2: with end_time > begin_time and no sample inside [begin_time, end_time] the
\* interpolating resampler returns the arange grid and an all-zero signal of the
\* grid's length, and does not raise.
C2_NoSampleAllZero ==
    (/\ rs_call = "interp"
     /\ rs_args.end_time > rs_args.begin_time
     /\ \A i \in DOMAIN rs_args.time_series : ~InWindow(i))
        => /\ rs_result = "returned"
           /\ Len(downsampled_time)
                  = CeilDiv(rs_args.end_time - rs_args.begin_time, rs_args.timestep_size)
           /\ \A k \in DOMAIN downsampled_time :
                  downsampled_time[k] = Rat(rs_args.begin_time + (k - 1) * rs_args.timestep_size)
           /\ Len(downsampled_signal) = Len(downsampled_time)
           /\ \A k \in DOMAIN downsampled_signal : downsampled_signal[k][1] = 0

\* C2 witness: samples with non-zero signal exist on both sides of the window, none
\* inside, and a grid of several points came back
C2_Witness ==
    /\ rs_call = "interp"
    /\ rs_result = "returned"
    /\ rs_args.end_time > rs_args.begin_time
    /\ \A i \in DOMAIN rs_args.time_series : ~InWindow(i)
    /\ \E i, j \in DOMAIN rs_args.time_series :
           /\ rs_args.time_series[i] < rs_args.begin_time
           /\ rs_args.time_series[j] > rs_args.end_time
           /\ rs_args.signal_series[i] > 0
           /\ rs_args.signal_series[j] > 0
    /\ Len(downsampled_signal) >= 2

\* sample i is the last sample of the series with its time
LastAtItsTime(i) ==
    \A j \in DOMAIN rs_args.time_series :
        j > i => rs_args.time_series[j] /= rs_args.time_series[i]

\* C3 as claimed: for strictly increasing sample times, the returned (smoothed)
\* new_signal at every grid point that coincides with a sample time inside the
\* window equals the signal of that sample.
C3_IdentityAfterSmoothing ==
    (/\ rs_call = "interp"
     /\ rs_result = "returned"
     /\ \A i \in DOMAIN rs_args.time_series : LastAtItsTime(i))
        => \A k \in DOMAIN downsampled_time : \A i \in DOMAIN rs_args.time_series :
               (InWindow(i) /\ downsampled_time[k] = Rat(rs_args.time_series[i]))
                   => RatEq(downsampled_signal[k], Rat(rs_args.signal_series[i]))

\* C3 amended: the identity holds for the interpolated signal before the Gaussian
\* smoothing: at every grid point that coincides with a sample time inside the
\* window it equals the signal of the (last) sample with that time.
C3_IdentityBeforeSmoothing ==
    (rs_call = "interp" /\ rs_result = "returned"
     /\ \E i \in DOMAIN rs_args.time_series : InWindow(i))
        => /\ Len(interpolated) = Len(downsampled_time)
           /\ Len(downsampled_signal) = Len(downsampled_time)
           /\ \A k \in DOMAIN downsampled_time : \A i \in DOMAIN rs_args.time_series :
                  (/\ InWindow(i)
                   /\ LastAtItsTime(i)
                   /\ downsampled_time[k] = Rat(rs_args.time_series[i]))
                      => RatEq(interpolated[k], Rat(rs_args.signal_series[i]))

\* C3 witness: a grid point lies on a sample whose interpolated value is the sample's
\* signal while the smoothed value returned for it differs
C3_Witness ==
    /\ rs_call = "interp"
    /\ rs_result = "returned"
    /\ \E k \in DOMAIN downsampled_time : \E i \in DOMAIN rs_args.time_series :
           /\ InWindow(i)
           /\ LastAtItsTime(i)
           /\ downsampled_time[k] = Rat(rs_args.time_series[i])
           /\ RatEq(interpolated[k], Rat(rs_args.signal_series[i]))
           /\ ~RatEq(downsampled_signal[k], Rat(rs_args.signal_series[i]))

\* C4 as claimed: every resampler revision, called with end_time > begin_time and
\* a sample inside the window, returns new_time and new_signal of equal length,
\* also when some of the `length` bins hold no sample.
C4_EqualLengths ==
    (/\ rs_call /= "none"
     /\ rs_args.end_time > rs_args.begin_time
     /\ \E i \in DOMAIN rs_args.time_series : InWindow(i)
     /\ rs_result = "returned")
        => Len(downsampled_time) = Len(downsampled_signal)

(* ----------------------- claims: label builder ------------------------ *)
\* the time of row i of the features file lies strictly inside the window (s, e)
StrictlyInside(i, s, e) ==
    /\ 2 * s < ParseCell(features_time[i])
    /\ ParseCell(features_time[i]) < 2 * e

\* C5: for a shot with one lifetime window (start, end), save_re_targets sets
\* target[i] = 1 exactly for the rows with start < time[i] < end and 0 for every
\* other row; rows exactly at start or at end get 0.
C5_StrictWindow ==
    (lb_call = "save_re_targets" /\ lifetimes.kind = "window")
        => /\ lb_result = "returned"
           /\ Len(target) = Len(features_time)
           /\ \A i \in DOMAIN features_time :
                  target[i] = IF StrictlyInside(i, lifetimes.value[1], lifetimes.value[2])
                              THEN 1 ELSE 0

\* C5 witness: one row at start, one strictly inside, one at end, labelled 0, 1, 0
C5_Witness ==
    /\ lb_call = "save_re_targets"
    /\ lifetimes.kind = "window"
    /\ lb_result = "returned"
    /\ \E i, j, k \in DOMAIN features_time :
           /\ ParseCell(features_time[i]) = 2 * lifetimes.value[1]
           /\ ParseCell(features_time[k]) = 2 * lifetimes.value[2]
           /\ features_time[j].frac = ".5"
           /\ target[i] = 0 /\ target[j] = 1 /\ target[k] = 0

\* the label builder ran on the worked example: time axis 0..5, window (1, 4)
OnExample ==
    /\ lb_call = "save_re_targets"
    /\ features_time = ExampleTimeAxis
    /\ lifetimes = [kind |-> "window", value |-> ExampleWindow]

\* C6 as claimed: time axis [0,1,2,3,4,5] and window (1, 4) give [0,0,1,1,1,0].
C6_ExampleAsClaimed == OnExample => target = <<0, 0, 1, 1, 1, 0>>

\* C6 amended: time axis [0,1,2,3,4,5] and window (1, 4) give [0,0,1,1,0,0]: the
\* rows at times 1 and 4 are both excluded.
C6_Example == OnExample => (lb_result = "returned" /\ target = <<0, 0, 1, 1, 0, 0>>)

\* C6 witness: the example was labelled and its label file written
C6_Witness == OnExample /\ label_file.exists /\ target[3] = 1 /\ target[5] = 0

\* C7: save_no_re_targets gives a target that is all zeros and has as many
\* entries as the shot's time column, whatever the time values are.
C7_NegativeAllZero ==
    lb_call = "save_no_re_targets"
        => /\ lb_result = "returned"
           /\ Len(target) = Len(features_time)
           /\ \A i \in DOMAIN target : target[i] = 0

\* C7 witness: a negative shot with several rows, times not in increasing order
C7_Witness ==
    /\ lb_call = "save_no_re_targets"
    /\ Len(features_time) >= 3
    /\ ParseCell(features_time[1]) > ParseCell(features_time[2])
    /\ Len(target) = 3

C9_AnyInterval ==
    (lb_call = "save_re_targets" /\ lifetimes.kind = "intervals")
        => /\ lb_result = "returned"
           /\ Len(target) = Len(features_time)
           /\ \A i \in DOMAIN features_time :
                  target[i] = IF \E k \in DOMAIN lifetimes.value :
                                     StrictlyInside(i, lifetimes.value[k][1],
                                                    lifetimes.value[k][2])
                              THEN 1 ELSE 0

(* ------------------------- claims: segmenter -------------------------- *)
RECURSIVE Concat(_)
Concat(segments) ==
    IF segments = <<>> THEN <<>> ELSE Head(segments) \o Concat(Tail(segments))

NonDecreasing(s) == \A i \in 1..(Len(s) - 1) : s[i] <= s[i + 1]

\* C10 as claimed: whatever the order of cut_times, a returning Edward gives
\* len(cut_times) + 1 segments whose concatenation is the original values.
C10_ConcatAnyCuts ==
    ed_result = "returned"
        => /\ Len(y_c) = Len(ed_args.t_c) + 1
           /\ Concat(y_c) = ed_args.y

\* C10 amended: for a non-empty non-decreasing time and cut_times in
\* non-decreasing order (in the two-array revision all inside [t[0], t[-1]]),
\* Edward returns len(cut_times) + 1 segments whose concatenation is the
\* original values.
C10_ConcatSortedCuts ==
    (/\ ed_call /= "none"
     /\ ed_args.t /= <<>>
     /\ NonDecreasing(ed_args.t)
     /\ NonDecreasing(ed_args.t_c)
     /\ ed_call = "EdwardSeries"
            => \A k \in DOMAIN ed_args.t_c :
                   /\ ed_args.t_c[k] >= ed_args.t[1]
                   /\ ed_args.t_c[k] <= ed_args.t[Len(ed_args.t)])
        => /\ ed_result = "returned"
           /\ Len(y_c) = Len(ed_args.t_c) + 1
           /\ Concat(y_c) = ed_args.y

\* C10 witness: two increasing cuts split the values into non-empty segments
C10_Witness ==
    /\ ed_result = "returned"
    /\ Len(ed_args.t_c) = 2
    /\ ed_args.t_c[1] < ed_args.t_c[2]
    /\ Len(y_c) = 3
    /\ y_c[1] /= <<>>
    /\ y_c[2] /= <<>>
    /\ y_c[1] /= y_c[2]

\* C11: on the example of the docstring (y = [1,1,1,2,2,2,2,3,3,3], t = [1..10],
\* t_c = [3, 7.5]) Edward returns [[1,1,1],[2,2,2,2,3],[3,3]]: the cut 7.5, midway between
\* the samples at 7 and 8, closes the segment at the later sample.
C11_DocstringExample ==
    (ed_call /= "none" /\ ed_args = EdwardExample)
        => /\ ed_result = "returned"
           /\ y_c = << <<1, 1, 1>>, <<2, 2, 2, 2, 3>>, <<3, 3>> >>


\* C12, as stated: every call of either variant of Edward in which some cut point is
\* smaller than time[0] or larger than time[-1] fails with the out-of-bounds error and
\* returns no segments.
SomeCutOutside ==
    /\ ed_args.t /= <<>>
    /\ \E k \in DOMAIN ed_args.t_c :
           \/ ed_args.t_c[k] < ed_args.t[1]
           \/ ed_args.t_c[k] > ed_args.t[Len(ed_args.t)]

C12_BothVariantsRaise ==
    (ed_call /= "none" /\ SomeCutOutside)
        => (ed_result = "ValueError" /\ y_c = <<>> /\ t_cutted = <<>>)

\* C12, amended: only the variant that also returns the time segments
\* (Download_single_files/PDF.py) checks the cut points: with a cut point outside
\* [time[0], time[-1]] it fails with ValueError and returns nothing, whatever the other cut
\* points are.  The variant of src/PDF.py makes no check: it returns one segment per cut
\* point plus one.
C12_OnlySeriesVariantRaises ==
    /\ (ed_call = "EdwardSeries" /\ SomeCutOutside)
           => (ed_result = "ValueError" /\ y_c = <<>> /\ t_cutted = <<>>)
    /\ (ed_call = "Edward" /\ SomeCutOutside)
           => (ed_result = "returned" /\ Len(y_c) = Len(ed_args.t_c) + 1)

\* a call of the checking variant whose first cut point is inside and whose last is above time[-1]
C12_Witness ==
    /\ ed_call = "EdwardSeries"
    /\ Len(ed_args.t) >= 2
    /\ Len(ed_args.t_c) = 2
    /\ ed_args.t_c[1] >= ed_args.t[1]
    /\ ed_args.t_c[1] <= ed_args.t[Len(ed_args.t)]
    /\ ed_args.t_c[2] > ed_args.t[Len(ed_args.t)]
    /\ ed_result = "ValueError"
    /\ y_c = <<>>

\* the 0-based positions of `time` at a smallest distance from the cut, and the first of them
Nearest(time, cut) ==
    {i \in 0..(Len(time) - 1) :
        \A j \in 0..(Len(time) - 1) : AbsDiff(time[i + 1], cut) <= AbsDiff(time[j + 1], cut)}

SnapIndex(time, cut) ==
    LET nearest == Nearest(time, cut)
    IN CHOOSE i \in nearest : \A j \in nearest : i <= j

\* the snap index of every cut of the call
SnapIndices == [k \in DOMAIN ed_args.t_c |-> SnapIndex(ed_args.t, ed_args.t_c[k])]

\* the 0-based position of the first sample of the k-th segment
SegmentStart(snap, k) == IF k = 1 THEN 0 ELSE snap[k - 1] + 1

\* the elements of `values` with 0-based position first .. last, in order
Range(values, first, last) ==
    [i \in 1..(IF last < first THEN 0 ELSE last - first + 1) |-> values[first + i]]

NoEdwardError ==
    /\ ed_call /= "none"
    /\ ed_args.t /= <<>>
    /\ ed_call = "EdwardSeries" => ~SomeCutOutside

C23_SortedCutsPartition ==
    (/\ ed_result = "returned"
     /\ NonDecreasing(ed_args.t)
     /\ NonDecreasing(ed_args.t_c))
        => /\ \A snap \in {SnapIndices} : \A k \in 2..Len(ed_args.t_c) : snap[k - 1] <= snap[k]
           /\ Concat(y_c) = ed_args.y
           /\ ed_call = "EdwardSeries"
                  => /\ Len(t_cutted) = Len(y_c)
                     /\ Concat(t_cutted) = ed_args.t
                     /\ \A k \in DOMAIN y_c : Len(t_cutted[k]) = Len(y_c[k])

\* the two-array variant on the ten samples of the docstring with two increasing cuts
\* inside the time range: three non-empty value segments with time segments of equal length
C23_Witness ==
    /\ ed_call = "EdwardSeries"
    /\ ed_result = "returned"
    /\ ed_args.t = EdwardExample.t
    /\ Len(ed_args.t_c) = 2
    /\ ed_args.t_c[1] < ed_args.t_c[2]
    /\ Len(y_c) = 3
    /\ \A k \in 1..3 : y_c[k] /= <<>> /\ Len(t_cutted[k]) = Len(y_c[k])

(* --------------------------- claims: merger ---------------------------- *)
Disr == mg_args.shot.disr_ipla_td
RampUpEnd == mg_args.shot.Ramp_up[2]

\* the requested keys the shot holds with a non-empty time and a non-empty signal, in order
PresentKeys ==
    SelectSeq(mg_args.keys,
              LAMBDA key : LET channel == mg_args.shot.channels[key]
                           IN channel.present /\ channel.time /= <<>> /\ channel.signal /= <<>>)

\* the disruption time is a number that is not smaller than Ramp_up[1]
ValidDisruption ==
    Disr.kind = "num" /\ RampUpEnd.kind = "num" /\ Disr.value >= RampUpEnd.value

\* C13: the final downsample_and_merge returns an empty table, resampling no channel and
\* raising nothing, whenever the disruption time is NaN or smaller than Ramp_up[1]; a
\* disruption time equal to Ramp_up[1] is accepted: every available channel is resampled.
C13_InvalidDisruptionEmpty ==
    mg_call = "final" =>
        /\ (Disr.kind = "nan"
            \/ (Disr.kind = "num" /\ RampUpEnd.kind = "num" /\ Disr.value < RampUpEnd.value))
               => /\ mg_result = "returned"
                  /\ merged_df = EmptyFrame
                  /\ mg_frames = <<>>
        /\ (Disr.kind = "num" /\ RampUpEnd.kind = "num" /\ Disr.value = RampUpEnd.value)
               => /\ mg_result = "returned"
                  /\ Len(mg_frames) = Len(PresentKeys)
                  /\ \A i \in DOMAIN mg_log : mg_log[i].line /= "can not be processed"

\* a shot with an available channel and a disruption time just below Ramp_up[1]
C13_Witness ==
    /\ mg_call = "final"
    /\ Disr.kind = "num"
    /\ RampUpEnd.kind = "num"
    /\ Disr.value + 1 = RampUpEnd.value
    /\ PresentKeys /= <<>>
    /\ mg_result = "returned"
    /\ merged_df = EmptyFrame

\* the time column of a frame
TimeColumn(df) == [i \in DOMAIN df.rows |-> df.rows[i]["time"]]

C15_ColumnsTimePlusPresent ==
    (mg_call = "final" /\ ValidDisruption) =>
        /\ mg_result = "returned"
        /\ merged_df.columns = <<"time">> \o PresentKeys

\* C15, amended: the same when at least one requested channel is available; when none
\* is, the returned table is pd.DataFrame(), with no column at all, `time` included.
C15_ColumnsOfPresent ==
    (mg_call = "final" /\ ValidDisruption) =>
        /\ mg_result = "returned"
        /\ PresentKeys /= <<>> => merged_df.columns = <<"time">> \o PresentKeys
        /\ PresentKeys = <<>> => merged_df = EmptyFrame
        /\ \A k \in DOMAIN mg_args.keys :
               (\A p \in DOMAIN PresentKeys : PresentKeys[p] /= mg_args.keys[k])
                   => \E l \in DOMAIN mg_log :
                          mg_log[l] = [line |-> "not available", key |-> mg_args.keys[k]]

\* the first channel is absent, the second has a zero-length signal, the third is merged alone
C15_Witness ==
    /\ mg_call = "final"
    /\ ValidDisruption
    /\ ~mg_args.shot.channels[mg_args.keys[1]].present
    /\ mg_args.shot.channels[mg_args.keys[2]].present
    /\ mg_args.shot.channels[mg_args.keys[2]].time /= <<>>
    /\ mg_args.shot.channels[mg_args.keys[2]].signal = <<>>
    /\ merged_df.columns = <<"time", mg_args.keys[3]>>
    /\ mg_result = "returned"

\* the time values of a table are pairwise different
UniqueTimes(df) ==
    \A i, j \in DOMAIN df.rows : i /= j => ~RatEq(df.rows[i]["time"], df.rows[j]["time"])

\* C16: after merging any number of channels of one shot the merged table has exactly one
\* row per timestep of the shared grid: the inner join on `time` drops no row and
\* duplicates none, so the row count equals the grid length after every merge step.
C16_OneRowPerTimestep ==
    (mg_call /= "none" /\ mg_result = "returned" /\ mg_frames /= <<>>) =>
        /\ \A i \in DOMAIN mg_row_counts : mg_row_counts[i] = Len(mg_frames[1].rows)
        /\ Len(merged_df.rows) = Len(mg_frames[1].rows)
        /\ UniqueTimes(merged_df)

\* the same for the final merger alone
C16_FinalOneRowPerTimestep == mg_call = "final" => C16_OneRowPerTimestep

(* ------------------------ claims: CSV pipeline ------------------------- *)
\* C17: process_and_save_as_csv called for a shot whose output file already exists returns
\* without parsing the input and without writing: the output folder, and so the content
\* of that file, is the same after the call, and one line about the skip is printed.
C17_SkipExistingOutput ==
    [][(/\ csv_status = "running"
        /\ csv_pos <= Len(jet_files)
        /\ output_folder[jet_files[csv_pos].id].exists
        /\ csv_pos' /= csv_pos)
          => /\ output_folder' = output_folder
             /\ csv_parsed' = csv_parsed
             /\ csv_log' = Append(csv_log,
                                  [line |-> "already exists", file |-> csv_pos, error |-> ""])
             /\ csv_status' = "running"
             /\ csv_pos' = csv_pos + 1]_vars

\* a second run has skipped a file whose table the first run had saved
C17_Witness ==
    /\ csv_status = "finished"
    /\ \E l \in DOMAIN csv_log :
           /\ csv_log[l].line = "already exists"
           /\ output_folder[jet_files[csv_log[l].file].id].complete
           /\ jet_files[csv_log[l].file].data.readable
           /\ \A p \in DOMAIN csv_parsed : csv_parsed[p] /= csv_log[l].file

\* C18: a failure while one shot is processed (in container parsing, in resampling and
\* merging, or in writing) never aborts the batch: when main has ended, by returning or by
\* an exception, every file of the list has been handed to process_and_save_as_csv, the
\* files after a failing one included.
C18_FailureNeverAbortsBatch ==
    csv_status \in {"finished", "aborted"} =>
        \A i \in DOMAIN jet_files :
            i < csv_pos \/ (i = csv_pos /\ csv_status = "aborted")

\* the shot dict has no disruption time (no key, or NaN), one earlier than the end of the
\* ramp-up, or none of the requested channels with a non-empty time and signal
RejectedShot(shot) ==
    \/ shot.disr_ipla_td.kind \in {"absent", "nan"}
    \/ shot.disr_ipla_td.value < shot.Ramp_up[2].value
    \/ \A k \in DOMAIN Keys :
           LET channel == shot.channels[Keys[k]]
           IN ~channel.present \/ channel.time = <<>> \/ channel.signal = <<>>

\* C21: process_and_save_as_csv writes an output file only when the merged table is not
\* empty: for a shot without disruption time (absent key or NaN), with a disruption time
\* earlier than the ramp-up end, or without any available requested channel, the call
\* leaves the output folder as it was, prints one "Failed to process" line and returns, and
\* the loop goes on to the next file.
C21_RejectedShotNoOutput ==
    [][(/\ csv_status = "running"
        /\ csv_pos <= Len(jet_files)
        /\ ~output_folder[jet_files[csv_pos].id].exists
        /\ jet_files[csv_pos].data.readable
        /\ RejectedShot(jet_files[csv_pos].data.shot)
        /\ csv_pos' /= csv_pos)
          => /\ output_folder' = output_folder
             /\ Len(csv_log') = Len(csv_log) + 1
             /\ csv_log'[Len(csv_log')].line = "Failed to process"
             /\ csv_log'[Len(csv_log')].file = csv_pos
             /\ csv_status' = "running"
             /\ csv_pos' = csv_pos + 1]_vars

\* a run that rejected a shot without the key disr_ipla_td and then saved the next shot
C21_Witness ==
    /\ csv_status = "finished"
    /\ Len(csv_log) = 2
    /\ csv_log[1] = [line |-> "Failed to process", file |-> 1, error |-> "KeyError"]
    /\ jet_files[1].data.shot.disr_ipla_td.kind = "absent"
    /\ ~output_folder[jet_files[1].id].exists
    /\ csv_log[2].line = "Saved"
    /\ output_folder[jet_files[2].id].complete

\* C24: whenever process_and_save_as_csv finds an output file for a shot, that file holds
\* the complete table of the shot: every file skipped as already processed is a completely
\* written one, never one left partial by an interrupted or failed write.
C24_SkippedFileComplete ==
    \A l \in DOMAIN csv_log :
        csv_log[l].line = "already exists"
            => output_folder[jet_files[csv_log[l].file].id].complete

\* C26: a call of process_and_save_as_csv that fails or rejects its shot leaves no output
\* artifact (so that the shot is attempted again by every later run), and a run hands each
\* listed file to the function at most once.
C26_FailureLeavesNoArtifact ==
    [][/\ (/\ Len(csv_log') = Len(csv_log) + 1
           /\ csv_log'[Len(csv_log')].line = "Failed to process")
              => /\ output_folder' = output_folder
                 /\ ~output_folder'[jet_files[csv_log'[Len(csv_log')].file].id].exists
       /\ (csv_status = "running" /\ csv_status' = "running") => csv_pos' = csv_pos + 1]_vars

(* --------------------- claims: aggregate pipeline ---------------------- *)
\* C19: the checkpoint is rewritten after every processed file by temp file and move, so
\* wherever the run is interrupted the file on disk is a complete mapping that holds
\* every shot whose save had completed before: no shot that was persisted once is ever
\* lost, and the file is never left partially written.
C19_PersistedNeverLost ==
    \A shot_number \in agg_persisted :
        pickle_file.state = "complete" /\ shot_number \in DOMAIN pickle_file.data

\* the same when the temp directory lies on the file system of the checkpoint
C19_SameFilesystem == same_filesystem => C19_PersistedNeverLost

\* C20: on a rerun every shot whose identifier is a key of the loaded checkpoint is
\* skipped, never handed to a parser again, and its loaded entry is unchanged in all_data
\* and in every checkpoint completely written during the rerun.
C20_LoadedShotsKept ==
    \A shot_number \in DOMAIN agg_loaded :
        /\ \A p \in DOMAIN agg_parsed : agg_files[agg_parsed[p]].id /= shot_number
        /\ shot_number \in DOMAIN all_data
        /\ all_data[shot_number] = agg_loaded[shot_number]
        /\ pickle_file.state = "complete"
               => /\ shot_number \in DOMAIN pickle_file.data
                  /\ pickle_file.data[shot_number] = agg_loaded[shot_number]

\* a rerun that skipped the file of a loaded shot and then saved a checkpoint with a new shot
C20_Witness ==
    /\ agg_status = "finished"
    /\ agg_loaded /= EmptyDict
    /\ \E l \in DOMAIN agg_log :
           /\ agg_log[l].line = "Skipping already processed file"
           /\ agg_files[agg_log[l].file].id \in DOMAIN agg_loaded
    /\ pickle_file.state = "complete"
    /\ DOMAIN pickle_file.data /= DOMAIN agg_loaded

\* C25: within one run each shot identifier is processed and stored at most once, also
\* when two listed files share the identifier: no pass of the loop overwrites an entry that
\* all_data already holds.
C25_StoredEntryNeverOverwritten ==
    [][(agg_status = "running" /\ agg_status' = "running")
          => \A shot_number \in DOMAIN all_data :
                 /\ shot_number \in DOMAIN all_data'
                 /\ all_data'[shot_number] = all_data[shot_number]]_vars

(* ------------------------- claims: shot lists -------------------------- *)
Elements(list) == {list[i] : i \in DOMAIN list}

\* C27: load_and_process_data returns RE_autom and RE_valid with only shots that are keys
\* of dataframes, and NO_RE_probably with exactly the shots of dataframes that are in
\* neither list; so every loaded shot is in one of the three lists and no shot is both in
\* NO_RE_probably and in an RE list.
C27_ShotListsPartition ==
    ld_call /= "none"
        => /\ Elements(RE_autom) \subseteq Shots(dataframes)
           /\ Elements(RE_valid) \subseteq Shots(dataframes)
           /\ Elements(RE_autom) = Elements(ld_args.re_autom) \cap Shots(dataframes)
           /\ Elements(RE_valid) = Elements(ld_args.re_valid) \cap Shots(dataframes)
           /\ Elements(NO_RE_probably)
                  = Shots(dataframes) \ (Elements(RE_autom) \cup Elements(RE_valid))
           /\ Shots(dataframes)
                  = Elements(RE_autom) \cup Elements(RE_valid) \cup Elements(NO_RE_probably)
           /\ Elements(NO_RE_probably) \cap (Elements(RE_autom) \cup Elements(RE_valid)) = {}
           /\ Len(NO_RE_probably) = Cardinality(Elements(NO_RE_probably))

\* two loaded shots: RE_autom.csv names one of them and a shot without features file,
\* RE_valid.csv names the same loaded shot, the other loaded shot is in neither list
C27_Witness ==
    /\ ld_call = "load_and_process_data"
    /\ Len(dataframes) = 2
    /\ Len(ld_args.re_autom) = 2
    /\ Len(RE_autom) = 1
    /\ Len(RE_valid) = 1
    /\ RE_valid = RE_autom
    /\ Len(NO_RE_probably) = 1
    /\ features = <<"IPLA">>

(* -------------------------- claims: cleaning --------------------------- *)
\* the rows of df in which no cell is NaN, +Inf or -Inf, in their order
RECURSIVE FiniteRows(_)
FiniteRows(df) ==
    IF df = <<>> THEN <<>>
    ELSE IF \E c \in FrameColumns : Head(df)[c].kind \in {"nan", "inf"}
         THEN FiniteRows(Tail(df))
         ELSE <<Head(df)>> \o FiniteRows(Tail(df))

WindowsOf(file, count) ==
    [j \in 1..count |->
        [x |-> [i \in 1..ds_args.window |->
                   [k \in DOMAIN FeaturesSequence |->
                       IF FeaturesSequence[k] \in file.columns
                       THEN FeatureCell(k, (j - 1) * ds_args.stride + i) ELSE 0]],
         y |-> [i \in 1..ds_args.window |-> file.target[(j - 1) * ds_args.stride + i]]]]

Skipped(file) == file.rows /= ds_args.seq_length

\* floor((seq_length - window) / stride) + 1
ClaimedCount == (ds_args.seq_length - ds_args.window) \div ds_args.stride + 1

FittingCount == IF ds_args.window <= ds_args.seq_length THEN ClaimedCount ELSE 0

\* the dataset holds, file after file in the shuffled order, `count` samples of every file
\* that is not skipped, each with the rows of that file, and reports the skipped files
DatasetHolds(count) ==
    /\ Len(samples) = SumSeq([p \in DOMAIN ds_features_list |->
                                 IF Skipped(ds_features_list[p]) THEN 0 ELSE count])
    /\ samples = Concat([p \in DOMAIN ds_features_list |->
                            IF Skipped(ds_features_list[p]) THEN <<>>
                            ELSE WindowsOf(ds_features_list[p], count)])
    /\ ds_log = SelectSeq([p \in DOMAIN ds_features_list |-> p],
                          LAMBDA p : Skipped(ds_features_list[p]))
    /\ \A n \in DOMAIN samples :
           /\ Len(samples[n].x) = ds_args.window
           /\ Len(samples[n].y) = ds_args.window
           /\ \A i \in DOMAIN samples[n].x : Len(samples[n].x[i]) = Len(FeaturesSequence)

\* C29, as stated: IndependentCSVDataset skips every file whose row count differs from
\* seq_length and creates exactly floor((seq_length - window) / stride) + 1 samples for
\* every other file, x and y of a sample being the same `window` rows of one file, x with
\* len(features_sequence) columns and zeros for a missing column.
C29_SamplesPerFile == ds_call /= "none" => DatasetHolds(ClaimedCount)

\* C29, amended: the same with floor((seq_length - window) / stride) + 1 samples for a file
\* that is not skipped when window <= seq_length, and no sample at all when
\* window > seq_length (window >= 1, stride >= 1).
C29_SamplesPerFileFitting == ds_call /= "none" => DatasetHolds(FittingCount)

\* one file is skipped, the other one, without the column IPLA, gives two windows of two rows
C29_Witness ==
    /\ ds_call = "IndependentCSVDataset"
    /\ ds_args.seq_length = 3
    /\ ds_args.window = 2
    /\ ds_args.stride = 1
    /\ ds_log = <<1>>
    /\ ds_features_list[2].columns = {"SSXcore"}
    /\ ds_features_list[2].target = <<0, 1, 1>>
    /\ samples = << [x |-> << <<11, 0>>, <<12, 0>> >>, y |-> <<0, 1>>],
                    [x |-> << <<12, 0>>, <<13, 0>> >>, y |-> <<1, 1>>] >>

(* ------------------------ claims: train/test split --------------------- *)
\* the three lists are pairwise disjoint and together hold every file of features_list once
SplitIsPartition ==
    /\ Elements(test_list) \cap Elements(train_list) = {}
    /\ Elements(test_list) \cap Elements(mini_test_list) = {}
    /\ Elements(train_list) \cap Elements(mini_test_list) = {}
    /\ Elements(test_list) \cup Elements(train_list) \cup Elements(mini_test_list)
           = Elements(sp_args.features_list)
    /\ Len(test_list) + Len(train_list) + Len(mini_test_list) = Len(sp_args.features_list)

\* the two sizes as load_all_data turns them into integers
TestSize == (Len(sp_args.features_list) * sp_args.test_size[1]) \div sp_args.test_size[2]
MiniTestSize ==
    (Len(sp_args.features_list) * sp_args.mini_test_size[1]) \div sp_args.mini_test_size[2]

\* C30, as stated: for every test_size and mini_test_size in [0, 1], test_size larger than
\* mini_test_size included, the test, train and mini-test lists of load_all_data are
\* pairwise disjoint and together hold every file of features_list exactly once.
C30_SplitPartitionAnySizes == sp_call /= "none" => SplitIsPartition

\* C30, amended: the three lists are pairwise disjoint and hold every file exactly once
\* when int(len * test_size) <= int(len * mini_test_size), so for every
\* test_size <= mini_test_size in [0, 1]; when int(len * test_size) is the larger one, the
\* train list is empty and the shuffled files at the positions int(len * mini_test_size) up
\* to int(len * test_size) - 1 are both in the test list and in the mini-test list.
C30_SplitPartitionOrderedSizes ==
    sp_call /= "none"
        => /\ TestSize <= MiniTestSize => SplitIsPartition
           /\ sp_args.test_size[1] <= sp_args.mini_test_size[1] => SplitIsPartition
           /\ TestSize > MiniTestSize
                  => /\ train_list = <<>>
                     /\ Elements(test_list) \cap Elements(mini_test_list)
                            = {sp_features_list[i] : i \in (MiniTestSize + 1)..TestSize}
                     /\ Elements(test_list) \cup Elements(mini_test_list)
                            = Elements(sp_args.features_list)

\* four files with test_size 1/4 and mini_test_size 3/4: one test file, two train files, one
\* mini-test file
C30_Witness ==
    /\ sp_call = "load_all_data"
    /\ Len(sp_args.features_list) = 4
    /\ sp_args.test_size = <<1, 4>>
    /\ sp_args.mini_test_size = <<3, 4>>
    /\ sp_features_list /= sp_args.features_list
    /\ Len(test_list) = 1
    /\ Len(train_list) = 2
    /\ Len(mini_test_list) = 1

(* ---------------------------- specification ---------------------------- *)
Init ==
    /\ rs_call = "none"
    /\ rs_args = [begin_time |-> 0, end_time |-> 0, time_series |-> <<>>,
                  signal_series |-> <<>>, timestep_size |-> 0, length |-> 0, method |-> ""]
    /\ rs_result = "none"
    /\ interpolated = <<>>
    /\ downsampled_time = <<>>
    /\ downsampled_signal = <<>>
    /\ lb_call = "none"
    /\ features_time = <<>>
    /\ lifetimes = [kind |-> "none", value |-> <<>>]
    /\ target = <<>>
    /\ label_file = NoFile
    /\ lb_result = "none"
    /\ ed_call = "none"
    /\ ed_args = [y |-> <<>>, t |-> <<>>, t_c |-> <<>>]
    /\ y_c = <<>>
    /\ t_cutted = <<>>
    /\ ed_result = "none"
    /\ mg_call = "none"
    /\ mg_args = [shot |-> NoShot, keys |-> <<>>, timestep_size |-> 0, length |-> 0]
    /\ mg_result = "none"
    /\ merged_df = EmptyFrame
    /\ mg_frames = <<>>
    /\ mg_row_counts = <<>>
    /\ mg_log = <<>>
    /\ csv_status = "none"
    /\ remote_files = <<>>
    /\ jet_files = <<>>
    /\ csv_pos = 1
    /\ output_folder = [shot \in ShotIds |-> NoCsv]
    /\ csv_parsed = <<>>
    /\ csv_log = <<>>
    /\ agg_status = "none"
    /\ agg_files = <<>>
    /\ agg_pos = 1
    /\ same_filesystem = TRUE
    /\ pickle_file = NoPickle
    /\ all_data = EmptyDict
    /\ processed_shots = {}
    /\ agg_loaded = EmptyDict
    /\ agg_persisted = {}
    /\ agg_parsed = <<>>
    /\ agg_log = <<>>
    /\ ld_call = "none"
    /\ ld_args = [files |-> <<>>, re_autom |-> <<>>, re_valid |-> <<>>]
    /\ dataframes = <<>>
    /\ RE_autom = <<>>
    /\ RE_valid = <<>>
    /\ NO_RE_probably = <<>>
    /\ features = <<>>
    /\ cl_call = "none"
    /\ cl_args = [dataframes |-> [key \in ShotIds |-> <<>>], drop |-> FALSE]
    /\ cl_frames = [key \in ShotIds |-> <<>>]
    /\ cl_log = <<>>
    /\ ds_call = "none"
    /\ ds_args = [features_list |-> <<>>, seq_length |-> 0, window |-> 1, stride |-> 1]
    /\ ds_features_list = <<>>
    /\ samples = <<>>
    /\ ds_log = <<>>
    /\ sp_call = "none"
    /\ sp_args = [features_list |-> <<>>, test_size |-> <<0, 1>>, mini_test_size |-> <<0, 1>>]
    /\ sp_features_list = <<>>
    /\ test_list = <<>>
    /\ train_list = <<>>
    /\ mini_test_list = <<>>

NextResampler ==
    \/ DownsampleTimeseries
    \/ DownsampleTimeseriesBins
    \/ DownsampleTimeseriesBoxes

SpecResampler == Init /\ [][NextResampler]_vars

NextLabels ==
    \/ SaveReTargets
    \/ SaveNoReTargets

SpecLabels == Init /\ [][NextLabels]_vars

NextSegmenter ==
    \/ Edward
    \/ EdwardSeries

SpecSegmenter == Init /\ [][NextSegmenter]_vars

NextMerger ==
    \/ DownsampleAndMerge
    \/ DownsampleAndMergeLegacy

SpecMerger == Init /\ [][NextMerger]_vars

NextCsv ==
    \/ CsvMain
    \/ CsvMainAgain
    \/ ProcessAndSaveAsCsv
    \/ CsvMainReturns
    \/ CsvInterrupted

SpecCsv == Init /\ [][NextCsv]_vars

NextAggregate ==
    \/ AggMain
    \/ AggMainAgain
    \/ AggProcessFile
    \/ AggMainReturns
    \/ AggInterrupted

SpecAggregate == Init /\ [][NextAggregate]_vars

NextLoader ==
    \/ LoadAndProcessData

SpecLoader == Init /\ [][NextLoader]_vars

NextCleaning ==
    \/ CheckNansInfs
    \/ CheckNansInfsPdf

SpecCleaning == Init /\ [][NextCleaning]_vars

NextDataset ==
    \/ IndependentCSVDataset

SpecDataset == Init /\ [][NextDataset]_vars

NextSplit ==
    \/ LoadAllData

SpecSplit == Init /\ [][NextSplit]_vars
====
